---- MODULE Spec2Model ----
(***************************************************************************)
(* CryptAuthV2EnrollerImpl: one CryptAuth v2 enrollment attempt.           *)
(* SyncKeys -> key creation -> EnrollKeys, with a one-shot timer per       *)
(* waiting state, modelled from                                            *)
(* chromeos/services/device_sync/cryptauth_v2_enroller_impl.cc.            *)
(***************************************************************************)
EXTENDS Integers, Sequences, FiniteSets, TLC

(* ------------------------------ bounds --------------------------------- *)

\* Most keys the kUserKeyPair bundle holds when the attempt starts; also the
\* longest key-action list a response carries.
MaxHandles == 3

(* ----------------------------- constants ------------------------------- *)

\* base::nullopt, nullptr and an unset optional proto field.
None == "none"

kUserKeyPair == "kUserKeyPair"
kLegacyMasterKey == "kLegacyMasterKey"

\* The order of the SyncSingleKeyRequests and SyncSingleKeyResponses.
GetKeyBundleOrder == <<kUserKeyPair, kLegacyMasterKey>>

BundleNames == {GetKeyBundleOrder[i] : i \in 1..Len(GetKeyBundleOrder)}

\* CryptAuthKeyBundle::KeyBundleNameEnumToString
KeyBundleNameEnumToString(bundle_name) ==
  IF bundle_name = kUserKeyPair THEN "PublicKey" ELSE "PublicKeyOrMasterKey"

kCryptAuthFixedUserKeyPairHandle == "device_key"

\* enum class State
kNotStarted == "kNotStarted"
kWaitingForSyncKeysResponse == "kWaitingForSyncKeysResponse"
kWaitingForKeyCreation == "kWaitingForKeyCreation"
kWaitingForEnrollKeysResponse == "kWaitingForEnrollKeysResponse"
kFinished == "kFinished"

States ==
  {kNotStarted, kWaitingForSyncKeysResponse, kWaitingForKeyCreation,
   kWaitingForEnrollKeysResponse, kFinished}

\* NetworkRequestError
NetworkRequestErrors ==
  {"kOffline", "kEndpointNotFound", "kAuthenticationError", "kBadRequest",
   "kResponseMalformed", "kInternalServerError", "kUnknown"}

SyncKeysNetworkRequestErrorToResultCode(error) ==
  CASE error = "kOffline" -> "kErrorSyncKeysApiCallOffline"
    [] error = "kEndpointNotFound" -> "kErrorSyncKeysApiCallEndpointNotFound"
    [] error = "kAuthenticationError" ->
         "kErrorSyncKeysApiCallAuthenticationError"
    [] error = "kBadRequest" -> "kErrorSyncKeysApiCallBadRequest"
    [] error = "kResponseMalformed" ->
         "kErrorSyncKeysApiCallResponseMalformed"
    [] error = "kInternalServerError" ->
         "kErrorSyncKeysApiCallInternalServerError"
    [] error = "kUnknown" -> "kErrorSyncKeysApiCallUnknownError"

\* EnrollKeysNetworkRequestErrorToResultCode returning the codes of the
\* SyncKeys call.
EnrollKeysNetworkRequestErrorAsSyncKeysCode(error) ==
  SyncKeysNetworkRequestErrorToResultCode(error)

EnrollKeysNetworkRequestErrorToResultCode(error) ==
  CASE error = "kOffline" -> "kErrorEnrollKeysApiCallOffline"
    [] error = "kEndpointNotFound" ->
         "kErrorEnrollKeysApiCallEndpointNotFound"
    [] error = "kAuthenticationError" ->
         "kErrorEnrollKeysApiCallAuthenticationError"
    [] error = "kBadRequest" -> "kErrorEnrollKeysApiCallBadRequest"
    [] error = "kResponseMalformed" ->
         "kErrorEnrollKeysApiCallResponseMalformed"
    [] error = "kInternalServerError" ->
         "kErrorEnrollKeysApiCallInternalServerError"
    [] error = "kUnknown" -> "kErrorEnrollKeysApiCallUnknownError"

\* GetTimeoutForState leaving the wait for the key creator without timeout.
GetTimeoutForStateOfNetworkCalls(s) ==
  CASE s = kWaitingForSyncKeysResponse -> "kWaitingForSyncKeysResponseTimeout"
    [] s = kWaitingForEnrollKeysResponse ->
         "kWaitingForEnrollKeysResponseTimeout"
    [] OTHER -> None

\* GetTimeoutForState: the timeout of a state, None when it has none.
GetTimeoutForState(s) ==
  CASE s = kWaitingForSyncKeysResponse -> "kWaitingForSyncKeysResponseTimeout"
    [] s = kWaitingForKeyCreation -> "kWaitingForKeyCreationTimeout"
    [] s = kWaitingForEnrollKeysResponse ->
         "kWaitingForEnrollKeysResponseTimeout"
    [] OTHER -> None

ResultCodeErrorFromState(s) ==
  CASE s = kWaitingForSyncKeysResponse ->
         "kErrorTimeoutWaitingForSyncKeysResponse"
    [] s = kWaitingForKeyCreation -> "kErrorTimeoutWaitingForKeyCreation"
    [] s = kWaitingForEnrollKeysResponse ->
         "kErrorTimeoutWaitingForEnrollKeysResponse"
    [] OTHER -> None

\* ConvertKeyCreationToKeyStatus giving kActive for every key creation.
ConvertKeyCreationToKeyStatusAlwaysActive(key_creation) == "kActive"

\* ConvertKeyCreationToKeyStatus (NONE never reaches it).
ConvertKeyCreationToKeyStatus(key_creation) ==
  IF key_creation = "ACTIVE" THEN "kActive" ELSE "kInactive"

\* SyncSingleKeyResponse::KeyAction_IsValid
KeyAction_IsValid(key_action) ==
  key_action \in {"ACTIVATE", "DEACTIVATE", "DELETE"}

\* IsSupportedKeyType taking every key type for a supported one.
IsSupportedKeyTypeOfAnyType(key_type) == TRUE

IsSupportedKeyType(key_type) == key_type \in {"RAW128", "RAW256", "P256"}

\* CryptAuthKey::IsAsymmetricKey
IsAsymmetricKey(key) == key.type = "P256"

(* --------------------- the key registry (collaborator) ----------------- *)

\* Key handles in the order of CryptAuthKeyBundle::handle_to_key_map(), a map
\* sorted by handle.
HandlePool == <<"device_key", "h1", "h2", "h3", "h4", "new_key">>

\* The handles of a bundle in map order.
HandleMapOrder(handles) == SelectSeq(HandlePool, LAMBDA h : h \in handles)

NoBundle == [present |-> FALSE, handles |-> {}, active |-> None,
             directive |-> None]

\* CryptAuthKeyRegistry::DeleteKey
DeleteKey(reg, bundle_name, handle) ==
  [reg EXCEPT ![bundle_name] =
     [@ EXCEPT !.handles = @ \ {handle},
               !.active = IF @ = handle THEN None ELSE @]]

\* CryptAuthKeyRegistry::SetActiveKey
SetActiveKey(reg, bundle_name, handle) ==
  [reg EXCEPT ![bundle_name] = [@ EXCEPT !.active = handle]]

\* CryptAuthKeyRegistry::AddEnrolledKey: creates the bundle when missing; an
\* active key becomes the bundle's active key.
AddEnrolledKey(reg, bundle_name, key) ==
  [reg EXCEPT ![bundle_name] =
     [@ EXCEPT !.present = TRUE,
               !.handles = @ \cup {key.handle},
               !.active = IF key.status = "kActive" THEN key.handle
                          ELSE IF @ = key.handle THEN None ELSE @]]

\* CryptAuthKeyRegistry::SetKeyDirective
SetKeyDirective(reg, bundle_name, key_directive) ==
  [reg EXCEPT ![bundle_name] =
     [@ EXCEPT !.present = TRUE, !.directive = key_directive]]

\* CryptAuthKey
CryptAuthKey(handle, status, type, public_key) ==
  [handle |-> handle, status |-> status, type |-> type,
   public_key |-> public_key]

NoKey == CryptAuthKey(None, None, None, None)

\* cryptauthv2::ClientDirective; has_value is FALSE for an unset field and for
\* an empty base::Optional<ClientDirective>.
ClientDirective(checkin_delay_millis, retry_attempts, retry_period_millis) ==
  [has_value |-> TRUE, checkin_delay_millis |-> checkin_delay_millis,
   retry_attempts |-> retry_attempts,
   retry_period_millis |-> retry_period_millis]

NoClientDirective ==
  [has_value |-> FALSE, checkin_delay_millis |-> 0, retry_attempts |-> 0,
   retry_period_millis |-> 0]

\* One entry of the log of mutator calls made on the registry.
RegistryCall(op, bundle_name, handle, key, key_directive) ==
  [op |-> op, bundle |-> bundle_name, handle |-> handle, key |-> key,
   directive |-> key_directive]

(* ------------------------- response validation ------------------------- *)

\* CheckSyncKeysResponse accepting more bundle responses than expected.
CheckSyncKeysResponseAtLeast(response, expected_num_key_responses) ==
  IF response.random_session_id = ""
  THEN "kErrorSyncKeysResponseMissingRandomSessionId"
  ELSE IF \/ ~response.client_directive.has_value
          \/ response.client_directive.checkin_delay_millis <= 0
          \/ response.client_directive.retry_attempts < 0
          \/ response.client_directive.retry_period_millis <= 0
  THEN "kErrorSyncKeysResponseInvalidClientDirective"
  ELSE IF Len(response.sync_single_key_responses) < expected_num_key_responses
  THEN "kErrorWrongNumberOfSyncSingleKeyResponses"
  ELSE None

\* CheckSyncKeysResponse counting the bundle responses before it looks at
\* the session id and the client directive.
CheckSyncKeysResponseCountFirst(response, expected_num_key_responses) ==
  IF Len(response.sync_single_key_responses) # expected_num_key_responses
  THEN "kErrorWrongNumberOfSyncSingleKeyResponses"
  ELSE IF response.random_session_id = ""
  THEN "kErrorSyncKeysResponseMissingRandomSessionId"
  ELSE IF \/ ~response.client_directive.has_value
          \/ response.client_directive.checkin_delay_millis <= 0
          \/ response.client_directive.retry_attempts < 0
          \/ response.client_directive.retry_period_millis <= 0
  THEN "kErrorSyncKeysResponseInvalidClientDirective"
  ELSE None

\* CheckSyncKeysResponse: the error code of an invalid response, else None.
CheckSyncKeysResponse(response, expected_num_key_responses) ==
  IF response.random_session_id = ""
  THEN "kErrorSyncKeysResponseMissingRandomSessionId"
  ELSE IF \/ ~response.client_directive.has_value
          \/ response.client_directive.checkin_delay_millis <= 0
          \/ response.client_directive.retry_attempts < 0
          \/ response.client_directive.retry_period_millis <= 0
  THEN "kErrorSyncKeysResponseInvalidClientDirective"
  ELSE IF Len(response.sync_single_key_responses) # expected_num_key_responses
  THEN "kErrorWrongNumberOfSyncSingleKeyResponses"
  ELSE None

\* The loop of ProcessKeyActions from position i on.
RECURSIVE ScanKeyActions(_, _, _, _, _)
ScanKeyActions(key_actions, handle_order, i, handle_to_activate, handles_to_delete) ==
  IF i > Len(handle_order)
  THEN IF handle_to_activate = None
          /\ Len(handles_to_delete) # Len(handle_order)
       THEN [error_code |-> "kErrorKeyActionsDoNotSpecifyAnActiveKey",
             handle_to_activate |-> handle_to_activate,
             handles_to_delete |-> handles_to_delete]
       ELSE [error_code |-> None,
             handle_to_activate |-> handle_to_activate,
             handles_to_delete |-> handles_to_delete]
  ELSE IF ~KeyAction_IsValid(key_actions[i])
  THEN [error_code |-> "kErrorInvalidKeyActionEnumValue",
        handle_to_activate |-> handle_to_activate,
        handles_to_delete |-> handles_to_delete]
  ELSE IF key_actions[i] = "DELETE"
  THEN ScanKeyActions(key_actions, handle_order, i + 1, handle_to_activate,
                      Append(handles_to_delete, handle_order[i]))
  ELSE IF key_actions[i] = "ACTIVATE"
  THEN IF handle_to_activate # None
       THEN [error_code |-> "kErrorKeyActionsSpecifyMultipleActiveKeys",
             handle_to_activate |-> handle_to_activate,
             handles_to_delete |-> handles_to_delete]
       ELSE ScanKeyActions(key_actions, handle_order, i + 1, handle_order[i],
                           handles_to_delete)
  ELSE ScanKeyActions(key_actions, handle_order, i + 1, handle_to_activate,
                      handles_to_delete)

\* ProcessKeyActions letting the first of several ACTIVATE actions win.
ProcessKeyActionsFirstActivateWins(key_actions, handle_order) ==
  IF Len(key_actions) # Len(handle_order)
  THEN [error_code |-> "kErrorWrongNumberOfKeyActions",
        handle_to_activate |-> None, handles_to_delete |-> <<>>]
  ELSE LET scanned == ScanKeyActions(key_actions, handle_order, 1, None, <<>>)
       IN IF scanned.error_code
               = "kErrorKeyActionsSpecifyMultipleActiveKeys"
          THEN [scanned EXCEPT !.error_code = None]
          ELSE scanned

\* ProcessKeyActions accepting a bundle that is left without an active key.
ProcessKeyActionsAllowingNoActiveKey(key_actions, handle_order) ==
  IF Len(key_actions) # Len(handle_order)
  THEN [error_code |-> "kErrorWrongNumberOfKeyActions",
        handle_to_activate |-> None, handles_to_delete |-> <<>>]
  ELSE LET scanned == ScanKeyActions(key_actions, handle_order, 1, None, <<>>)
       IN IF scanned.error_code = "kErrorKeyActionsDoNotSpecifyAnActiveKey"
          THEN [scanned EXCEPT !.error_code = None]
          ELSE scanned

\* ProcessKeyActions requiring an ACTIVATE action whenever the bundle has
\* handles.
ProcessKeyActionsRequiringActiveKey(key_actions, handle_order) ==
  IF Len(key_actions) # Len(handle_order)
  THEN [error_code |-> "kErrorWrongNumberOfKeyActions",
        handle_to_activate |-> None, handles_to_delete |-> <<>>]
  ELSE LET scanned == ScanKeyActions(key_actions, handle_order, 1, None, <<>>)
       IN IF scanned.error_code = None /\ scanned.handle_to_activate = None
             /\ handle_order # <<>>
          THEN [scanned EXCEPT
                  !.error_code = "kErrorKeyActionsDoNotSpecifyAnActiveKey"]
          ELSE scanned

\* ProcessKeyActions ignoring the key actions beyond the recorded handles.
ProcessKeyActionsIgnoringExtraActions(key_actions, handle_order) ==
  IF Len(key_actions) < Len(handle_order)
  THEN [error_code |-> "kErrorWrongNumberOfKeyActions",
        handle_to_activate |-> None, handles_to_delete |-> <<>>]
  ELSE ScanKeyActions(key_actions, handle_order, 1, None, <<>>)

\* ProcessKeyActions passing over the key actions it does not recognize.
ProcessKeyActionsSkippingUnknown(key_actions, handle_order) ==
  IF Len(key_actions) # Len(handle_order)
  THEN [error_code |-> "kErrorWrongNumberOfKeyActions",
        handle_to_activate |-> None, handles_to_delete |-> <<>>]
  ELSE ScanKeyActions(
         [i \in 1..Len(key_actions) |->
            IF KeyAction_IsValid(key_actions[i]) THEN key_actions[i]
            ELSE "DEACTIVATE"],
         handle_order, 1, None, <<>>)

\* ProcessKeyActions: the key to activate and the keys to delete, or an error.
ProcessKeyActions(key_actions, handle_order) ==
  IF Len(key_actions) # Len(handle_order)
  THEN [error_code |-> "kErrorWrongNumberOfKeyActions",
        handle_to_activate |-> None, handles_to_delete |-> <<>>]
  ELSE ScanKeyActions(key_actions, handle_order, 1, None, <<>>)

\* CryptAuthKeyCreator::CreateKeyData
CreateKeyData(status, type, handle) ==
  [status |-> status, type |-> type, handle |-> handle]

\* An empty base::Optional<CreateKeyData>.
NoCreateKeyData == CreateKeyData(None, None, None)

\* ProcessKeyCreationInstructions without the test for the server's
\* Diffie-Hellman key.
ProcessKeyCreationInstructionsWithoutDhCheck(bundle_name, single_key_response, server_ephemeral_dh) ==
  IF single_key_response.key_creation = "NONE"
  THEN [error_code |-> None, new_key_to_create |-> NoCreateKeyData,
        new_key_directive |-> None]
  ELSE IF ~IsSupportedKeyType(single_key_response.key_type)
  THEN [error_code |-> "kErrorKeyCreationKeyTypeNotSupported",
        new_key_to_create |-> NoCreateKeyData, new_key_directive |-> None]
  ELSE [error_code |-> None,
        new_key_to_create |->
          CreateKeyData(
            ConvertKeyCreationToKeyStatus(single_key_response.key_creation),
            single_key_response.key_type,
            IF bundle_name = kUserKeyPair
            THEN kCryptAuthFixedUserKeyPairHandle ELSE None),
        new_key_directive |-> single_key_response.key_directive]

\* ProcessKeyCreationInstructions taking the key directive of the response
\* whether or not a key is to be created.
ProcessKeyCreationInstructionsKeepingDirective(bundle_name, single_key_response, server_ephemeral_dh) ==
  IF single_key_response.key_creation = "NONE"
  THEN [error_code |-> None, new_key_to_create |-> NoCreateKeyData,
        new_key_directive |-> single_key_response.key_directive]
  ELSE IF ~IsSupportedKeyType(single_key_response.key_type)
  THEN [error_code |-> "kErrorKeyCreationKeyTypeNotSupported",
        new_key_to_create |-> NoCreateKeyData, new_key_directive |-> None]
  ELSE IF server_ephemeral_dh = ""
          /\ single_key_response.key_type \in {"RAW128", "RAW256"}
  THEN [error_code |->
          "kErrorSymmetricKeyCreationMissingServerDiffieHellman",
        new_key_to_create |-> NoCreateKeyData, new_key_directive |-> None]
  ELSE [error_code |-> None,
        new_key_to_create |->
          CreateKeyData(
            ConvertKeyCreationToKeyStatus(single_key_response.key_creation),
            single_key_response.key_type,
            IF bundle_name = kUserKeyPair
            THEN kCryptAuthFixedUserKeyPairHandle ELSE None),
        new_key_directive |-> single_key_response.key_directive]

\* ProcessKeyCreationInstructions: the key to create and the key directive of
\* one bundle (None when there is none), or an error.
ProcessKeyCreationInstructions(bundle_name, single_key_response, server_ephemeral_dh) ==
  IF single_key_response.key_creation = "NONE"
  THEN [error_code |-> None, new_key_to_create |-> NoCreateKeyData,
        new_key_directive |-> None]
  ELSE IF ~IsSupportedKeyType(single_key_response.key_type)
  THEN [error_code |-> "kErrorKeyCreationKeyTypeNotSupported",
        new_key_to_create |-> NoCreateKeyData, new_key_directive |-> None]
  ELSE IF server_ephemeral_dh = ""
          /\ single_key_response.key_type \in {"RAW128", "RAW256"}
  THEN [error_code |->
          "kErrorSymmetricKeyCreationMissingServerDiffieHellman",
        new_key_to_create |-> NoCreateKeyData, new_key_directive |-> None]
  ELSE [error_code |-> None,
        new_key_to_create |->
          CreateKeyData(
            ConvertKeyCreationToKeyStatus(single_key_response.key_creation),
            single_key_response.key_type,
            IF bundle_name = kUserKeyPair
            THEN kCryptAuthFixedUserKeyPairHandle ELSE None),
        new_key_directive |-> single_key_response.key_directive]

(* --------------------- the server's SyncKeysResponses ------------------- *)

KeyActionValues == {"ACTIVATE", "DEACTIVATE", "DELETE", "UNRECOGNIZED"}

KeyCreationValues == {"NONE", "ACTIVE", "INACTIVE"}

KeyTypeValues == {"RAW128", "RAW256", "P256", "CURVE25519"}

\* The key directive of a SyncSingleKeyResponse, None when the field is unset.
KeyDirectiveValues == {None, "key_directive_1"}

SeqsUpTo(S, n) == UNION {[1..k -> S] : k \in 0..n}

SyncSingleKeyResponse(key_actions, key_creation, key_type, key_directive) ==
  [key_actions |-> key_actions, key_creation |-> key_creation,
   key_type |-> key_type, key_directive |-> key_directive]

\* The key-action lists a response may carry for the kLegacyMasterKey bundle,
\* which holds at most one key: one action at most.
ShortKeyActions == SeqsUpTo(KeyActionValues, 1)

\* The key-action lists a response may carry for the kUserKeyPair bundle.
LongKeyActions == SeqsUpTo(KeyActionValues, MaxHandles)

\* A few key-creation requests: none, a symmetric key, an asymmetric key and
\* a key of an unsupported type.
PlainKeyCreations ==
  {<<"NONE", "P256", None>>, <<"ACTIVE", "RAW128", "key_directive_1">>,
   <<"INACTIVE", "P256", "key_directive_2">>,
   <<"ACTIVE", "CURVE25519", "key_directive_1">>}

\* Every key-creation request.
KeyCreations == KeyCreationValues \X KeyTypeValues \X KeyDirectiveValues

SingleKeyResponses(key_actions, key_creations) ==
  {SyncSingleKeyResponse(a, c[1], c[2], c[3]) :
     a \in key_actions, c \in key_creations}

\* One response per bundle, in bundle order: every key-action list and every
\* key-creation request occurs for each bundle, and at most one of the four
\* parts is not a short list or a plain request; with a long list the
\* kLegacyMasterKey bundle has no key-creation request.
SingleKeyResponseLists ==
  {<<u, l>> :
     u \in SingleKeyResponses(LongKeyActions, PlainKeyCreations),
     l \in SingleKeyResponses(ShortKeyActions, {<<"NONE", "P256", None>>})}
  \cup
  {<<u, l>> :
     u \in SingleKeyResponses(ShortKeyActions, KeyCreations),
     l \in SingleKeyResponses(ShortKeyActions, PlainKeyCreations)}
  \cup
  {<<u, l>> :
     u \in SingleKeyResponses(ShortKeyActions, PlainKeyCreations),
     l \in SingleKeyResponses(ShortKeyActions, KeyCreations)}

\* Lists with one response too few or one too many.
MiscountedSingleKeyResponseLists ==
  {<<p>> : p \in {SyncSingleKeyResponse(<<>>, "NONE", "P256", None)}}
  \cup
  {<<p, p, p>> :
     p \in {SyncSingleKeyResponse(<<>>, "INACTIVE", "P256", None),
            SyncSingleKeyResponse(<<"DELETE">>, "NONE", "P256", None)}}

ClientDirectiveValues ==
  {NoClientDirective}
  \cup {ClientDirective(c, a, p) : c \in 0..2, a \in -1..0, p \in 0..1}

SyncKeysResponse(server_status, random_session_id, client_directive, server_ephemeral_dh, sync_single_key_responses) ==
  [server_status |-> server_status, random_session_id |-> random_session_id,
   client_directive |-> client_directive,
   server_ephemeral_dh |-> server_ephemeral_dh,
   sync_single_key_responses |-> sync_single_key_responses]

\* The responses the server may send: well-formed ones over the bundle
\* responses above, and ones that vary the fields checked before the bundles
\* are processed.
SyncKeysResponses ==
  {SyncKeysResponse("OK", "session_id", ClientDirective(1, 0, 1), dh, l) :
     dh \in {"", "server_dh"}, l \in SingleKeyResponseLists}
  \cup
  {SyncKeysResponse(st, sid, cd, "server_dh", l) :
     st \in {"OK", "SERVER_OVERLOADED"}, sid \in {"", "session_id"},
     cd \in ClientDirectiveValues,
     l \in MiscountedSingleKeyResponseLists
           \cup {<<SyncSingleKeyResponse(<<>>, "ACTIVE", "P256",
                                         "key_directive_1"),
                   SyncSingleKeyResponse(<<>>, "NONE", "P256", None)>>}}

(* ------------------- processing the bundle responses ------------------- *)

\* A flat_map from bundle names with no entry.
EmptyMap == [bundle_name \in {} |-> None]

\* The keys of a flat_map from bundle names, in iteration order.
MapOrder(map) == SelectSeq(GetKeyBundleOrder, LAMBDA b : b \in DOMAIN map)

\* The registry after a sequence of mutator calls.
RECURSIVE ApplyRegistryCalls(_, _)
ApplyRegistryCalls(reg, calls) ==
  IF calls = <<>> THEN reg
  ELSE LET c == Head(calls)
           next ==
             CASE c.op = "DeleteKey" -> DeleteKey(reg, c.bundle, c.handle)
               [] c.op = "SetActiveKey" ->
                    SetActiveKey(reg, c.bundle, c.handle)
               [] c.op = "AddEnrolledKey" ->
                    AddEnrolledKey(reg, c.bundle, c.key)
               [] c.op = "SetKeyDirective" ->
                    SetKeyDirective(reg, c.bundle, c.directive)
       IN ApplyRegistryCalls(next, Tail(calls))

\* KeyActionCalls deleting only the first of the keys to delete.
KeyActionCallsFirstDeletionOnly(bundle_name, handle_to_activate, handles_to_delete) ==
  [i \in 1..(IF handles_to_delete = <<>> THEN 0 ELSE 1) |->
     RegistryCall("DeleteKey", bundle_name, handles_to_delete[i], NoKey,
                  None)]
  \o (IF handle_to_activate # None
      THEN <<RegistryCall("SetActiveKey", bundle_name, handle_to_activate,
                          NoKey, None)>>
      ELSE <<>>)

\* KeyActionCalls making the activation before the deletions.
KeyActionCallsActivatingFirst(bundle_name, handle_to_activate, handles_to_delete) ==
  (IF handle_to_activate # None
   THEN <<RegistryCall("SetActiveKey", bundle_name, handle_to_activate,
                       NoKey, None)>>
   ELSE <<>>)
  \o [i \in 1..Len(handles_to_delete) |->
        RegistryCall("DeleteKey", bundle_name, handles_to_delete[i], NoKey,
                     None)]

\* The registry calls that apply the key actions of one bundle: the deletions,
\* then the activation if there is one.
KeyActionCalls(bundle_name, handle_to_activate, handles_to_delete) ==
  [i \in 1..Len(handles_to_delete) |->
     RegistryCall("DeleteKey", bundle_name, handles_to_delete[i], NoKey,
                  None)]
  \o (IF handle_to_activate # None
      THEN <<RegistryCall("SetActiveKey", bundle_name, handle_to_activate,
                          NoKey, None)>>
      ELSE <<>>)

\* The loop of ProcessSingleKeyResponses with every error overwriting the
\* one recorded before.
RECURSIVE ProcessSingleKeyResponsesLastErrorFrom(_, _, _, _)
ProcessSingleKeyResponsesLastErrorFrom(i, sync_keys_response, handle_orders, acc) ==
  IF i > Len(GetKeyBundleOrder) THEN acc
  ELSE
    LET single_response == sync_keys_response.sync_single_key_responses[i]
        bundle_name == GetKeyBundleOrder[i]
        actions == ProcessKeyActions(single_response.key_actions,
                                     handle_orders[bundle_name])
        creation ==
          ProcessKeyCreationInstructions(
            bundle_name, single_response,
            sync_keys_response.server_ephemeral_dh)
        applied ==
          [acc EXCEPT !.calls =
             @ \o KeyActionCalls(bundle_name, actions.handle_to_activate,
                                 actions.handles_to_delete)]
    IN IF actions.error_code # None
       THEN ProcessSingleKeyResponsesLastErrorFrom(
              i + 1, sync_keys_response, handle_orders,
              [acc EXCEPT !.error_code = actions.error_code])
       ELSE IF creation.error_code # None
       THEN ProcessSingleKeyResponsesLastErrorFrom(
              i + 1, sync_keys_response, handle_orders,
              [applied EXCEPT !.error_code = creation.error_code])
       ELSE ProcessSingleKeyResponsesLastErrorFrom(
              i + 1, sync_keys_response, handle_orders,
              [applied EXCEPT
                 !.new_keys_to_create =
                   IF creation.new_key_to_create # NoCreateKeyData
                   THEN (bundle_name :> creation.new_key_to_create) @@ @
                   ELSE @,
                 !.new_key_directives =
                   IF creation.new_key_directive # None
                   THEN (bundle_name :> creation.new_key_directive) @@ @
                   ELSE @])

\* ProcessSingleKeyResponses returning the last error.
ProcessSingleKeyResponsesLastError(sync_keys_response, handle_orders) ==
  ProcessSingleKeyResponsesLastErrorFrom(
    1, sync_keys_response, handle_orders,
    [error_code |-> None, calls |-> <<>>, new_keys_to_create |-> EmptyMap,
     new_key_directives |-> EmptyMap])

\* The loop of ProcessSingleKeyResponses with a key-creation error keeping
\* the key actions of the bundle from being applied.
RECURSIVE ProcessSingleKeyResponsesAllOrNothingFrom(_, _, _, _)
ProcessSingleKeyResponsesAllOrNothingFrom(i, sync_keys_response, handle_orders, acc) ==
  IF i > Len(GetKeyBundleOrder) THEN acc
  ELSE
    LET single_response == sync_keys_response.sync_single_key_responses[i]
        bundle_name == GetKeyBundleOrder[i]
        actions == ProcessKeyActions(single_response.key_actions,
                                     handle_orders[bundle_name])
        creation ==
          ProcessKeyCreationInstructions(
            bundle_name, single_response,
            sync_keys_response.server_ephemeral_dh)
        applied ==
          [acc EXCEPT !.calls =
             @ \o KeyActionCalls(bundle_name, actions.handle_to_activate,
                                 actions.handles_to_delete)]
    IN IF actions.error_code # None
       THEN ProcessSingleKeyResponsesAllOrNothingFrom(
              i + 1, sync_keys_response, handle_orders,
              [acc EXCEPT !.error_code =
                 IF @ = None THEN actions.error_code ELSE @])
       ELSE IF creation.error_code # None
       THEN ProcessSingleKeyResponsesAllOrNothingFrom(
              i + 1, sync_keys_response, handle_orders,
              [acc EXCEPT !.error_code =
                 IF @ = None THEN creation.error_code ELSE @])
       ELSE ProcessSingleKeyResponsesAllOrNothingFrom(
              i + 1, sync_keys_response, handle_orders,
              [applied EXCEPT
                 !.new_keys_to_create =
                   IF creation.new_key_to_create # NoCreateKeyData
                   THEN (bundle_name :> creation.new_key_to_create) @@ @
                   ELSE @,
                 !.new_key_directives =
                   IF creation.new_key_directive # None
                   THEN (bundle_name :> creation.new_key_directive) @@ @
                   ELSE @])

\* ProcessSingleKeyResponses applying the key actions of a bundle only when
\* its key-creation instructions are valid too.
ProcessSingleKeyResponsesAllOrNothing(sync_keys_response, handle_orders) ==
  ProcessSingleKeyResponsesAllOrNothingFrom(
    1, sync_keys_response, handle_orders,
    [error_code |-> None, calls |-> <<>>, new_keys_to_create |-> EmptyMap,
     new_key_directives |-> EmptyMap])

\* The loop of ProcessSingleKeyResponses from bundle i on. acc carries
\* error_code, the registry calls made so far, new_keys_to_create and
\* new_key_directives.
RECURSIVE ProcessSingleKeyResponsesFrom(_, _, _, _)
ProcessSingleKeyResponsesFrom(i, sync_keys_response, handle_orders, acc) ==
  IF i > Len(GetKeyBundleOrder) THEN acc
  ELSE
    LET single_response == sync_keys_response.sync_single_key_responses[i]
        bundle_name == GetKeyBundleOrder[i]
        actions == ProcessKeyActions(single_response.key_actions,
                                     handle_orders[bundle_name])
        creation ==
          ProcessKeyCreationInstructions(
            bundle_name, single_response,
            sync_keys_response.server_ephemeral_dh)
        applied ==
          [acc EXCEPT !.calls =
             @ \o KeyActionCalls(bundle_name, actions.handle_to_activate,
                                 actions.handles_to_delete)]
    IN IF actions.error_code # None
       THEN ProcessSingleKeyResponsesFrom(
              i + 1, sync_keys_response, handle_orders,
              [acc EXCEPT !.error_code =
                 IF @ = None THEN actions.error_code ELSE @])
       ELSE IF creation.error_code # None
       THEN ProcessSingleKeyResponsesFrom(
              i + 1, sync_keys_response, handle_orders,
              [applied EXCEPT !.error_code =
                 IF @ = None THEN creation.error_code ELSE @])
       ELSE ProcessSingleKeyResponsesFrom(
              i + 1, sync_keys_response, handle_orders,
              [applied EXCEPT
                 !.new_keys_to_create =
                   IF creation.new_key_to_create # NoCreateKeyData
                   THEN (bundle_name :> creation.new_key_to_create) @@ @
                   ELSE @,
                 !.new_key_directives =
                   IF creation.new_key_directive # None
                   THEN (bundle_name :> creation.new_key_directive) @@ @
                   ELSE @])

ProcessSingleKeyResponses(sync_keys_response, handle_orders) ==
  ProcessSingleKeyResponsesFrom(
    1, sync_keys_response, handle_orders,
    [error_code |-> None, calls |-> <<>>, new_keys_to_create |-> EmptyMap,
     new_key_directives |-> EmptyMap])

\* ResultAfterProcessing with the test for no new keys made before the test
\* for an error.
ResultAfterProcessingEmptyFirst(error_code, new_keys_to_create) ==
  IF DOMAIN new_keys_to_create = {} THEN "kSuccessNoNewKeysNeeded"
  ELSE IF error_code # None THEN error_code
  ELSE None

\* ResultAfterProcessing taking no account of the recorded error.
ResultAfterProcessingForgettingError(error_code, new_keys_to_create) ==
  IF DOMAIN new_keys_to_create = {} THEN "kSuccessNoNewKeysNeeded" ELSE None

\* ResultAfterProcessing finishing with the error only if no key is to be
\* created.
ResultAfterProcessingCreatingDespiteError(error_code, new_keys_to_create) ==
  IF DOMAIN new_keys_to_create # {} THEN None
  ELSE IF error_code # None THEN error_code
  ELSE "kSuccessNoNewKeysNeeded"

\* What OnSyncKeysSuccess does once the bundle responses are processed: the
\* result code it finishes with, None when it goes on to create keys.
ResultAfterProcessing(error_code, new_keys_to_create) ==
  IF error_code # None THEN error_code
  ELSE IF DOMAIN new_keys_to_create = {} THEN "kSuccessNoNewKeysNeeded"
  ELSE None

\* ResultBeforeProcessing without the test for an overloaded server.
ResultBeforeProcessingIgnoringOverload(response) ==
  CheckSyncKeysResponse(response, Len(GetKeyBundleOrder))

\* The result code OnSyncKeysSuccess finishes with before it processes any
\* bundle response, None when the response passes the checks.
ResultBeforeProcessing(response) ==
  IF response.server_status = "SERVER_OVERLOADED"
  THEN "kErrorCryptAuthServerOverloaded"
  ELSE CheckSyncKeysResponse(response, Len(GetKeyBundleOrder))

\* ClientDirectiveAfterSyncKeys with the directive recorded before the
\* response is checked.
ClientDirectiveRecordedFirst(response, client_directive) ==
  response.client_directive

\* new_client_directive_ when OnSyncKeysSuccess returns.
ClientDirectiveAfterSyncKeys(response, client_directive) ==
  IF ResultBeforeProcessing(response) # None THEN client_directive
  ELSE response.client_directive

\* The server's Diffie-Hellman key handed to the key creator, None if the
\* response has none.
ServerEphemeralDh(response) ==
  IF response.server_ephemeral_dh # ""
  THEN [public_key |-> response.server_ephemeral_dh, status |-> "kInactive",
        type |-> "P256"]
  ELSE [public_key |-> None, status |-> None, type |-> None]

(* ------------------------------- state --------------------------------- *)

VARIABLES
  state,                 \* state_
  timer,                 \* timer_: the result code bound to the armed timer
  key_handle_orders,     \* key_handle_orders_
  new_client_directive,  \* new_client_directive_
  registry,              \* *key_registry_
  registry_calls,        \* the mutator calls made on the registry, in order
  sync_keys_call,        \* the SyncKeys call of cryptauth_client_
  create_keys_call,      \* the CreateKeys call of key_creator_
  enroll_keys_call,      \* the EnrollKeys call of cryptauth_client_
  results,               \* the results passed to OnAttemptFinished, in order
  sync_keys_outcome,     \* what the last OnSyncKeysSuccess call computed
  crashed                \* a DCHECK has failed and ended the process

vars ==
  <<state, timer, key_handle_orders, new_client_directive, registry,
    registry_calls, sync_keys_call, create_keys_call, enroll_keys_call,
    results, sync_keys_outcome, crashed>>

\* A call that was not made; error is the network error a call failed with.
NoCall == [status |-> "none", error |-> None]

\* sync_keys_outcome before a response is received. Once one is: the number
\* of results reported before it, the response with its client directive and
\* Diffie-Hellman key, the result of the checks made before the bundles are
\* processed, and what ProcessSingleKeyResponses returned.
NoOutcome ==
  [received |-> FALSE, results_before |-> 0,
   client_directive |-> NoClientDirective, server_ephemeral_dh |-> "",
   result_before_processing |-> None, error_code |-> None,
   new_keys_to_create |-> EmptyMap, new_key_directives |-> EmptyMap,
   response |-> SyncKeysResponse(None, "", NoClientDirective, "", <<>>)]

\* A bundle holding the n handles of HandlePool from position first on; the
\* first of them is its active key.
BundleWith(first, n) ==
  [present |-> TRUE,
   handles |-> {HandlePool[i] : i \in first..(first + n - 1)},
   active |-> IF n = 0 THEN None ELSE HandlePool[first],
   directive |-> None]

\* The registries an attempt may start from: the kUserKeyPair bundle missing
\* or with up to MaxHandles keys, the kLegacyMasterKey bundle missing or with
\* one key.
InitialRegistries ==
  {[bundle_name \in BundleNames |->
      IF bundle_name = kUserKeyPair THEN u ELSE l] :
     u \in {NoBundle} \cup {BundleWith(1, n) : n \in 0..MaxHandles},
     l \in {NoBundle, BundleWith(2, 1)}}

Init ==
  /\ state = kNotStarted
  /\ timer = None
  /\ key_handle_orders = EmptyMap
  /\ new_client_directive = NoClientDirective
  /\ registry \in InitialRegistries
  /\ registry_calls = <<>>
  /\ sync_keys_call = NoCall
  /\ create_keys_call = NoCall
  /\ enroll_keys_call = NoCall
  /\ results = <<>>
  /\ sync_keys_outcome = NoOutcome
  /\ crashed = FALSE

(* ------------------------------ operations ----------------------------- *)

\* SetState arming a timer for the network calls only, with no
\* timeout for the key creator.
SetStateTimingNetworkCalls(s) ==
  /\ state' = s
  /\ timer' = IF s \in {kWaitingForSyncKeysResponse,
                         kWaitingForEnrollKeysResponse}
              THEN ResultCodeErrorFromState(s) ELSE None

\* SetState without timer_->Stop(): a state without timeout keeps the timer
\* that was armed.
SetStateLeavingTimer(s) ==
  /\ state' = s
  /\ timer' = IF GetTimeoutForState(s) = None THEN timer
              ELSE ResultCodeErrorFromState(s)

\* SetState: stops the timer, sets the state and arms the timer of the new
\* state, bound to FinishAttempt with the state's timeout code.
SetState(s) ==
  /\ state' = s
  /\ timer' = IF GetTimeoutForState(s) = None THEN None
              ELSE ResultCodeErrorFromState(s)

CryptAuthEnrollmentResult(result_code, client_directive) ==
  [result_code |-> result_code, client_directive |-> client_directive]

\* FinishAttempt reporting the result without a client directive.
FinishAttemptWithoutClientDirective(result_code) ==
  /\ SetState(kFinished)
  /\ results' =
       Append(results, CryptAuthEnrollmentResult(result_code,
                                                 NoClientDirective))

\* FinishAttempt: reports the result with new_client_directive_ as it is
\* when FinishAttempt is called, which the calling handler has set by then.
FinishAttempt(result_code) ==
  /\ SetState(kFinished)
  /\ results' =
       Append(results, CryptAuthEnrollmentResult(result_code,
                                                 new_client_directive'))

\* A DCHECK whose condition is false ends the process in a build that
\* compiles DCHECKs in; in a build that compiles them out the handler runs on.
Crash ==
  /\ crashed' = TRUE
  /\ UNCHANGED <<state, timer, key_handle_orders, new_client_directive,
                 registry, registry_calls, sync_keys_call, create_keys_call,
                 enroll_keys_call, results, sync_keys_outcome>>

\* BuildSyncSingleKeyRequest
BuildSyncSingleKeyRequest(bundle_name, key_bundle) ==
  [key_name |-> KeyBundleNameEnumToString(bundle_name),
   key_handles |-> IF key_bundle.present
                   THEN HandleMapOrder(key_bundle.handles) ELSE <<>>,
   policy_reference |-> IF key_bundle.present THEN key_bundle.directive
                        ELSE None]

\* BuildSyncKeysRequest leaving out the bundles that are not in the registry.
BuildSyncKeysRequestOfPresentBundles(reg) ==
  [sync_single_key_requests |->
     LET present ==
           SelectSeq(GetKeyBundleOrder, LAMBDA b : reg[b].present)
     IN [i \in 1..Len(present) |->
           BuildSyncSingleKeyRequest(present[i], reg[present[i]])]]

\* BuildSyncKeysRequest: the per-bundle requests, in bundle order.
BuildSyncKeysRequest(reg) ==
  [sync_single_key_requests |->
     [i \in 1..Len(GetKeyBundleOrder) |->
        BuildSyncSingleKeyRequest(GetKeyBundleOrder[i],
                                  reg[GetKeyBundleOrder[i]])]]

\* RecordedHandleOrders recording the handles in reverse map order.
RecordedHandleOrdersReversed(reg) ==
  [bundle_name \in BundleNames |->
     IF reg[bundle_name].present
     THEN LET order == HandleMapOrder(reg[bundle_name].handles)
          IN [i \in 1..Len(order) |-> order[Len(order) + 1 - i]]
     ELSE <<>>]

\* The handle orders BuildSyncSingleKeyRequest records while it builds the
\* requests.
RecordedHandleOrders(reg) ==
  [bundle_name \in BundleNames |->
     IF reg[bundle_name].present
     THEN HandleMapOrder(reg[bundle_name].handles) ELSE <<>>]

\* OnAttemptStarted: the base class calls it from Enroll(). Its only check
\* of the state is a DCHECK; it sends a SyncKeys request with a new client
\* and counts the requests sent.
OnAttemptStarted ==
  /\ ~crashed
  /\ \/ /\ state # kNotStarted
        /\ Crash
     \/ /\ SetState(kWaitingForSyncKeysResponse)
        /\ key_handle_orders' = RecordedHandleOrders(registry)
        /\ sync_keys_call' =
             [status |-> "pending", error |-> None,
              request |-> BuildSyncKeysRequest(registry),
              sent |-> IF sync_keys_call = NoCall THEN 1
                       ELSE sync_keys_call.sent + 1]
        /\ UNCHANGED <<new_client_directive, registry, registry_calls,
                       create_keys_call, enroll_keys_call, results,
                       sync_keys_outcome, crashed>>

\* TimerFired undoing the deletions of the attempt.
TimerFiredRollingBack ==
  /\ ~crashed
  /\ timer # None
  /\ UNCHANGED new_client_directive
  /\ FinishAttempt(timer)
  /\ registry' =
       [bundle_name \in BundleNames |->
          [registry[bundle_name] EXCEPT
             !.handles =
               @ \cup {key_handle_orders[bundle_name][i] :
                         i \in 1..Len(key_handle_orders[bundle_name])}]]
  /\ UNCHANGED <<key_handle_orders, registry_calls, sync_keys_call,
                 create_keys_call, enroll_keys_call, sync_keys_outcome,
                 crashed>>

\* The armed timer fires and runs the FinishAttempt bound to it.
TimerFired ==
  /\ ~crashed
  /\ timer # None
  /\ UNCHANGED new_client_directive
  /\ FinishAttempt(timer)
  /\ UNCHANGED <<key_handle_orders, registry,
                 registry_calls, sync_keys_call, create_keys_call,
                 enroll_keys_call, sync_keys_outcome, crashed>>

\* OnSyncKeysSuccess: the SyncKeys call completes with a response.
OnSyncKeysSuccess(response) ==
  /\ ~crashed
  /\ sync_keys_call.status = "pending"
  /\ \/ /\ state # kWaitingForSyncKeysResponse
        /\ Crash
     \/ /\ sync_keys_call' = [sync_keys_call EXCEPT !.status = "done"]
        /\ new_client_directive' =
             ClientDirectiveAfterSyncKeys(response, new_client_directive)
        /\ IF ResultBeforeProcessing(response) # None
           THEN /\ FinishAttempt(ResultBeforeProcessing(response))
                /\ sync_keys_outcome' =
                     [NoOutcome EXCEPT
                        !.received = TRUE,
                        !.results_before = Len(results),
                        !.client_directive = response.client_directive,
                        !.server_ephemeral_dh = response.server_ephemeral_dh,
                        !.result_before_processing =
                          ResultBeforeProcessing(response),
                        !.response = response]
                /\ UNCHANGED <<registry, registry_calls, create_keys_call>>
           ELSE \E processed \in
                     {ProcessSingleKeyResponses(response, key_handle_orders)} :
                /\ registry' = ApplyRegistryCalls(registry, processed.calls)
                /\ registry_calls' = registry_calls \o processed.calls
                /\ sync_keys_outcome' =
                     [received |-> TRUE,
                      results_before |-> Len(results),
                      client_directive |-> response.client_directive,
                      server_ephemeral_dh |-> response.server_ephemeral_dh,
                      result_before_processing |-> None,
                      error_code |-> processed.error_code,
                      new_keys_to_create |-> processed.new_keys_to_create,
                      new_key_directives |-> processed.new_key_directives,
                      response |-> response]
                /\ IF ResultAfterProcessing(
                        processed.error_code,
                        processed.new_keys_to_create) # None
                   THEN /\ FinishAttempt(
                             ResultAfterProcessing(
                               processed.error_code,
                               processed.new_keys_to_create))
                        /\ UNCHANGED create_keys_call
                   ELSE /\ SetState(kWaitingForKeyCreation)
                        /\ create_keys_call' =
                             [status |-> "pending", error |-> None,
                              new_keys_to_create |->
                                processed.new_keys_to_create,
                              server_ephemeral_dh |->
                                ServerEphemeralDh(response),
                              session_id |-> response.random_session_id,
                              new_key_directives |->
                                processed.new_key_directives,
                              key_proofs |-> None]
                        /\ UNCHANGED results
        /\ UNCHANGED <<key_handle_orders, enroll_keys_call, crashed>>

\* OnSyncKeysFailure sending the request again instead of finishing.
OnSyncKeysFailureRetrying(error) ==
  /\ ~crashed
  /\ sync_keys_call.status = "pending"
  /\ sync_keys_call' = [sync_keys_call EXCEPT !.error = error]
  /\ SetState(kWaitingForSyncKeysResponse)
  /\ UNCHANGED <<key_handle_orders, new_client_directive, registry,
                 registry_calls, create_keys_call, enroll_keys_call,
                 results, sync_keys_outcome, crashed>>

\* OnSyncKeysFailure: the SyncKeys call completes with a network error.
OnSyncKeysFailure(error) ==
  /\ ~crashed
  /\ sync_keys_call.status = "pending"
  /\ sync_keys_call' = [sync_keys_call EXCEPT !.status = "done",
                                              !.error = error]
  /\ UNCHANGED new_client_directive
  /\ FinishAttempt(SyncKeysNetworkRequestErrorToResultCode(error))
  /\ UNCHANGED <<key_handle_orders, registry,
                 registry_calls, create_keys_call, enroll_keys_call,
                 sync_keys_outcome, crashed>>

\* The key the key creator makes for one CreateKeyData: it takes the fixed
\* handle when one is given and generates a handle otherwise.
CreatedKey(data) ==
  CryptAuthKey(IF data.handle # None THEN data.handle ELSE "new_key",
               data.status, data.type,
               IF data.type = "P256" THEN "public_key" ELSE "")

\* BuildEnrollSingleKeyRequest setting key_material for every key.
BuildEnrollSingleKeyRequestWithKeyMaterial(bundle_name, new_key, key_proof) ==
  [key_name |-> KeyBundleNameEnumToString(bundle_name),
   new_key_handle |-> new_key.handle,
   key_material |-> new_key.public_key,
   key_proof |-> key_proof]

\* The EnrollSingleKeyRequest of one new key.
BuildEnrollSingleKeyRequest(bundle_name, new_key, key_proof) ==
  [key_name |-> KeyBundleNameEnumToString(bundle_name),
   new_key_handle |-> new_key.handle,
   key_material |-> IF IsAsymmetricKey(new_key) THEN new_key.public_key
                    ELSE None,
   key_proof |-> key_proof]

\* The EnrollKeysRequest OnKeysCreated builds.
BuildEnrollKeysRequest(session_id, new_keys, client_ephemeral_dh, key_proofs) ==
  [random_session_id |-> session_id,
   client_ephemeral_dh |-> client_ephemeral_dh,
   enroll_single_key_requests |->
     [i \in 1..Len(MapOrder(new_keys)) |->
        BuildEnrollSingleKeyRequest(MapOrder(new_keys)[i],
                                    new_keys[MapOrder(new_keys)[i]],
                                    key_proofs[MapOrder(new_keys)[i]])]]

\* KeyProofFailed taking an empty proof for a proof.
KeyProofFailedOnlyWhenAbsent(key_proof) == key_proof = None

\* ComputeKeyProof failed or returned an empty proof.
KeyProofFailed(key_proof) == key_proof = None \/ key_proof = ""

\* The key creator's own Diffie-Hellman key: it makes one when it is given
\* the server's.
ClientEphemeralDh(server_ephemeral_dh) ==
  IF server_ephemeral_dh.public_key # None THEN "client_dh" ELSE None

\* OnKeysCreated sending the EnrollKeys request while the key creator is
\* still at work.
OnKeysCreatedBeforeCompletion(key_proofs) ==
  /\ ~crashed
  /\ create_keys_call.status = "pending"
  /\ state = kWaitingForKeyCreation
  /\ SetState(kWaitingForEnrollKeysResponse)
  /\ enroll_keys_call' =
       [status |-> "pending", error |-> None,
        request |-> <<>>,
        new_key_directives |-> create_keys_call.new_key_directives,
        new_keys |->
          [bundle_name \in DOMAIN create_keys_call.new_keys_to_create |->
             CreatedKey(create_keys_call.new_keys_to_create[bundle_name])]]
  /\ UNCHANGED <<key_handle_orders, new_client_directive, registry,
                 registry_calls, sync_keys_call, create_keys_call, results,
                 sync_keys_outcome, crashed>>

\* OnKeysCreated: the key creator completes; key_proofs is what
\* ComputeKeyProof returns for each new key, kept in create_keys_call as
\* a record of the computation.
OnKeysCreated(key_proofs) ==
  /\ ~crashed
  /\ create_keys_call.status = "pending"
  /\ DOMAIN key_proofs = DOMAIN create_keys_call.new_keys_to_create
  /\ \/ /\ state # kWaitingForKeyCreation
        /\ Crash
     \/
       LET new_keys ==
             [bundle_name \in DOMAIN create_keys_call.new_keys_to_create |->
                CreatedKey(create_keys_call.new_keys_to_create[bundle_name])]
       IN /\ create_keys_call' = [create_keys_call EXCEPT
                                   !.status = "done",
                                   !.key_proofs = key_proofs]
          /\ UNCHANGED new_client_directive
          /\ IF \E bundle_name \in DOMAIN new_keys :
                  KeyProofFailed(key_proofs[bundle_name])
             THEN /\ FinishAttempt("kErrorKeyProofComputationFailed")
                  /\ UNCHANGED enroll_keys_call
             ELSE /\ SetState(kWaitingForEnrollKeysResponse)
                  /\ enroll_keys_call' =
                       [status |-> "pending", error |-> None,
                        request |->
                          BuildEnrollKeysRequest(
                            create_keys_call.session_id, new_keys,
                            ClientEphemeralDh(
                              create_keys_call.server_ephemeral_dh),
                            key_proofs),
                        new_key_directives |->
                          create_keys_call.new_key_directives,
                        new_keys |-> new_keys]
                  /\ UNCHANGED results
          /\ UNCHANGED <<key_handle_orders, registry, registry_calls,
                         sync_keys_call, sync_keys_outcome, crashed>>

\* AddEnrolledKeyCalls leaving the loop after the first key.
AddEnrolledKeyCallsFirstOnly(new_keys) ==
  [i \in 1..1 |->
     RegistryCall("AddEnrolledKey", MapOrder(new_keys)[i],
                  new_keys[MapOrder(new_keys)[i]].handle,
                  new_keys[MapOrder(new_keys)[i]], None)]

\* The AddEnrolledKey calls of OnEnrollKeysSuccess.
AddEnrolledKeyCalls(new_keys) ==
  [i \in 1..Len(MapOrder(new_keys)) |->
     RegistryCall("AddEnrolledKey", MapOrder(new_keys)[i],
                  new_keys[MapOrder(new_keys)[i]].handle,
                  new_keys[MapOrder(new_keys)[i]], None)]

\* The SetKeyDirective calls of OnEnrollKeysSuccess.
SetKeyDirectiveCalls(new_key_directives) ==
  [i \in 1..Len(MapOrder(new_key_directives)) |->
     RegistryCall("SetKeyDirective", MapOrder(new_key_directives)[i], None,
                  NoKey, new_key_directives[MapOrder(new_key_directives)[i]])]

\* OnEnrollKeysSuccess: the EnrollKeys call completes with a response.
OnEnrollKeysSuccess ==
  /\ ~crashed
  /\ enroll_keys_call.status = "pending"
  /\ \/ /\ state # kWaitingForEnrollKeysResponse
        /\ Crash
     \/
       LET calls ==
             AddEnrolledKeyCalls(enroll_keys_call.new_keys)
               \o SetKeyDirectiveCalls(enroll_keys_call.new_key_directives)
       IN /\ enroll_keys_call' = [enroll_keys_call EXCEPT !.status = "done"]
          /\ registry' = ApplyRegistryCalls(registry, calls)
          /\ registry_calls' = registry_calls \o calls
          /\ UNCHANGED new_client_directive
          /\ FinishAttempt("kSuccessNewKeysEnrolled")
          /\ UNCHANGED <<key_handle_orders, sync_keys_call, create_keys_call, sync_keys_outcome,
                         crashed>>

\* OnEnrollKeysFailure committing the new keys all the same.
OnEnrollKeysFailureCommitting(error) ==
  /\ ~crashed
  /\ enroll_keys_call.status = "pending"
  /\ enroll_keys_call' = [enroll_keys_call EXCEPT !.status = "done",
                                                  !.error = error]
  /\ UNCHANGED new_client_directive
  /\ FinishAttempt(EnrollKeysNetworkRequestErrorToResultCode(error))
  /\ registry' =
       ApplyRegistryCalls(registry,
                          AddEnrolledKeyCalls(enroll_keys_call.new_keys))
  /\ registry_calls' =
       registry_calls \o AddEnrolledKeyCalls(enroll_keys_call.new_keys)
  /\ UNCHANGED <<key_handle_orders, sync_keys_call, create_keys_call,
                 sync_keys_outcome, crashed>>

\* OnEnrollKeysFailure sending the EnrollKeys request again.
OnEnrollKeysFailureRetrying(error) ==
  /\ ~crashed
  /\ enroll_keys_call.status = "pending"
  /\ enroll_keys_call' = [enroll_keys_call EXCEPT !.error = error]
  /\ SetState(kWaitingForEnrollKeysResponse)
  /\ UNCHANGED <<key_handle_orders, new_client_directive, registry,
                 registry_calls, sync_keys_call, create_keys_call, results,
                 sync_keys_outcome, crashed>>

\* OnEnrollKeysFailure: the EnrollKeys call completes with a network error.
OnEnrollKeysFailure(error) ==
  /\ ~crashed
  /\ enroll_keys_call.status = "pending"
  /\ enroll_keys_call' = [enroll_keys_call EXCEPT !.status = "done",
                                                  !.error = error]
  /\ UNCHANGED new_client_directive
  /\ FinishAttempt(EnrollKeysNetworkRequestErrorToResultCode(error))
  /\ UNCHANGED <<key_handle_orders, registry,
                 registry_calls, sync_keys_call, create_keys_call,
                 sync_keys_outcome, crashed>>

KeyProofValues == {None, "", "key_proof"}

\* The attempt is started once, as the contract of the enroller asks of its
\* caller; then the completions and timer firings may follow one another in
\* any order: each call completes at most once, and the timer fires only
\* while it is armed.
Next ==
  \/ /\ state = kNotStarted
     /\ OnAttemptStarted
  \/ TimerFired
  \/ /\ sync_keys_call.status = "pending"
     /\ \E response \in SyncKeysResponses : OnSyncKeysSuccess(response)
  \/ \E error \in NetworkRequestErrors : OnSyncKeysFailure(error)
  \/ /\ create_keys_call.status = "pending"
     /\ \E key_proofs \in [DOMAIN create_keys_call.new_keys_to_create ->
                             KeyProofValues] :
          OnKeysCreated(key_proofs)
  \/ OnEnrollKeysSuccess
  \/ \E error \in NetworkRequestErrors : OnEnrollKeysFailure(error)

Spec == Init /\ [][Next]_vars

\* The number of SyncKeys requests a caller that starts the attempt again
\* makes.
MaxSyncKeysCalls == 2

\* The states in which the attempt is started again: while the response of
\* the first SyncKeys call is awaited, and after that wait timed out.
RestartStates ==
  /\ ~sync_keys_outcome.received
  /\ \/ state = kWaitingForSyncKeysResponse
     \/ /\ state = kFinished
        /\ results[Len(results)].result_code
             = "kErrorTimeoutWaitingForSyncKeysResponse"

\* A caller that breaks the contract and starts the attempt again, while it
\* is outstanding or after it finished. The new client replaces the one of
\* the SyncKeys call made before.
NextWithRestart ==
  \/ Next
  \/ /\ RestartStates
     /\ sync_keys_call.sent < MaxSyncKeysCalls
     /\ OnAttemptStarted

RestartSpec == Init /\ [][NextWithRestart]_vars

\* The timer is a base::OneShotTimer: once started and not stopped it fires
\* after its delay, whatever the network client and the key creator do.
FairSpec == Init /\ [][Next]_vars /\ WF_vars(TimerFired)

(* ------------------------------ properties ----------------------------- *)

\* A result with this code has been reported.
Reported(result_code) ==
  \E i \in 1..Len(results) : results[i].result_code = result_code

LastResult == results[Len(results)]

\* The calls that commit new keys and key directives to the registry.
CommitCalls ==
  SelectSeq(registry_calls,
            LAMBDA c : c.op \in {"AddEnrolledKey", "SetKeyDirective"})

\* The positions of the calls of one mutator on one bundle.
CallsOf(op, bundle_name) ==
  {i \in 1..Len(registry_calls) :
     registry_calls[i].op = op /\ registry_calls[i].bundle = bundle_name}

\* A SyncKeys response was received, was not an overload response and passed
\* CheckSyncKeysResponse, so its bundle responses were processed.
ValidResponseProcessed ==
  sync_keys_outcome.received
    /\ sync_keys_outcome.result_before_processing = None

\* This step is the handling of a SyncKeys response.
SyncKeysSuccessStep ==
  ~sync_keys_outcome.received /\ sync_keys_outcome'.received

\* C1: a completion delivered once the attempt is Finished is ignored: the
\* step leaves the state Finished and the registry as it is, issues no
\* key-creation or EnrollKeys call and reports no result.
C1_CompletionAfterFinishedIgnored ==
  [][state = kFinished =>
       /\ state' = kFinished
       /\ timer' = None
       /\ registry' = registry
       /\ registry_calls' = registry_calls
       /\ results' = results
       /\ create_keys_call'.status = "pending"
            => create_keys_call.status = "pending"
       /\ enroll_keys_call'.status = "pending"
            => enroll_keys_call.status = "pending"]_vars

\* C2: OnAttemptFinished is invoked at most once in an attempt, so exactly one
\* result is reported once the attempt has finished.
C2_ExactlyOneResult ==
  /\ Len(results) <= 1
  /\ state = kFinished => Len(results) = 1

\* This step is the timer firing in state kWaitingForKeyCreation.
KeyCreationTimerStep ==
  /\ state = kWaitingForKeyCreation
  /\ create_keys_call' = create_keys_call
  /\ results' # results

\* C3: the timer firing in kWaitingForKeyCreation finishes the attempt with
\* the key-creation-timeout code, and from then on no step (the late
\* key-creation completion or anything it leads to) changes the registry.
C3_NoMutationAfterKeyCreationTimeout ==
  [][/\ KeyCreationTimerStep =>
          /\ state' = kFinished
          /\ LastResult'.result_code = "kErrorTimeoutWaitingForKeyCreation"
     /\ Reported("kErrorTimeoutWaitingForKeyCreation") =>
          /\ registry' = registry
          /\ registry_calls' = registry_calls]_vars

\* The edges of the state machine.
StateEdges ==
  {<<kNotStarted, kWaitingForSyncKeysResponse>>,
   <<kWaitingForSyncKeysResponse, kWaitingForKeyCreation>>,
   <<kWaitingForKeyCreation, kWaitingForEnrollKeysResponse>>,
   <<kWaitingForSyncKeysResponse, kFinished>>,
   <<kWaitingForKeyCreation, kFinished>>,
   <<kWaitingForEnrollKeysResponse, kFinished>>}

\* C4: the state moves only along the edges of the state machine, and never
\* leaves kFinished.
C4_ForwardOnlyTransitions ==
  [][state' # state => <<state, state'>> \in StateEdges]_vars

C6_EnrollKeysSuccessCommitsAll ==
  Reported("kSuccessNewKeysEnrolled") =>
    /\ DOMAIN enroll_keys_call.new_keys
         = DOMAIN sync_keys_outcome.new_keys_to_create
    /\ \A bundle_name \in BundleNames :
         /\ Cardinality(CallsOf("AddEnrolledKey", bundle_name)) =
              IF bundle_name \in DOMAIN enroll_keys_call.new_keys
              THEN 1 ELSE 0
         /\ \A i \in CallsOf("AddEnrolledKey", bundle_name) :
              registry_calls[i].key = enroll_keys_call.new_keys[bundle_name]
         /\ Cardinality(CallsOf("SetKeyDirective", bundle_name)) =
              IF bundle_name \in DOMAIN sync_keys_outcome.new_key_directives
              THEN 1 ELSE 0
         /\ \A i \in CallsOf("SetKeyDirective", bundle_name) :
              registry_calls[i].directive =
                sync_keys_outcome.new_key_directives[bundle_name]
    /\ state = kFinished
    /\ LastResult.result_code = "kSuccessNewKeysEnrolled"

\* Two keys and a key directive were committed by a successful EnrollKeys
\* call.
C6_Witness ==
  /\ Reported("kSuccessNewKeysEnrolled")
  /\ DOMAIN enroll_keys_call.new_keys = BundleNames
  /\ sync_keys_outcome.new_key_directives # EmptyMap
  /\ Len(CommitCalls) >= 3

\* C7: the key actions of every bundle that passes ProcessKeyActions are in
\* effect once the SyncKeys response is processed, whatever error another
\* bundle recorded, and from then on a step that commits nothing (a timeout, a
\* proof failure, an EnrollKeys failure, a late completion) leaves every
\* bundle's keys and active handle as the key actions left them.
C7_KeyActionsStayApplied ==
  [][/\ SyncKeysSuccessStep =>
          \A i \in (Len(registry_calls) + 1)..Len(registry_calls') :
            /\ registry_calls'[i].op = "DeleteKey" =>
                 registry_calls'[i].handle
                   \notin registry'[registry_calls'[i].bundle].handles
            /\ registry_calls'[i].op = "SetActiveKey" =>
                 registry'[registry_calls'[i].bundle].active
                   = registry_calls'[i].handle
     /\ (sync_keys_outcome.received /\ CommitCalls' = CommitCalls) =>
          \A bundle_name \in BundleNames :
            /\ registry'[bundle_name].handles = registry[bundle_name].handles
            /\ registry'[bundle_name].active
                 = registry[bundle_name].active]_vars

\* A key was deleted and another activated, then key creation timed out: the
\* deleted key is still gone and the activated handle still active.
C7_Witness ==
  /\ Reported("kErrorTimeoutWaitingForKeyCreation")
  /\ \E i \in CallsOf("DeleteKey", kUserKeyPair),
        j \in CallsOf("SetActiveKey", kUserKeyPair) :
       /\ registry_calls[i].handle \notin registry[kUserKeyPair].handles
       /\ registry[kUserKeyPair].active = registry_calls[j].handle
       /\ registry_calls[j].handle # "device_key"

\* C8 as stated: a valid response that yields no creation instruction ends
\* the attempt with kSuccessNoNewKeysNeeded and no EnrollKeys call, whether or
\* not a bundle recorded an error.
C8_NoNewKeysDespiteError ==
  (ValidResponseProcessed
     /\ DOMAIN sync_keys_outcome.new_keys_to_create = {}) =>
    /\ LastResult.result_code = "kSuccessNoNewKeysNeeded"
    /\ enroll_keys_call.status = "none"

\* C8: a valid response that yields no creation instruction ends the attempt
\* at once, with kSuccessNoNewKeysNeeded if no bundle recorded an error and
\* with the first recorded error otherwise; no key is created and no
\* EnrollKeys call is made.
C8_NoNewKeysOrRecordedError ==
  (ValidResponseProcessed
     /\ DOMAIN sync_keys_outcome.new_keys_to_create = {}) =>
    /\ Len(results) = sync_keys_outcome.results_before + 1
    /\ LastResult.result_code =
         IF sync_keys_outcome.error_code = None
         THEN "kSuccessNoNewKeysNeeded"
         ELSE sync_keys_outcome.error_code
    /\ state = kFinished
    /\ create_keys_call.status = "none"
    /\ enroll_keys_call.status = "none"

\* No creation instruction, an error recorded for one bundle and key actions
\* applied to another: the attempt finished with the error.
C8_Witness ==
  /\ ValidResponseProcessed
  /\ DOMAIN sync_keys_outcome.new_keys_to_create = {}
  /\ sync_keys_outcome.error_code # None
  /\ registry_calls # <<>>
  /\ LastResult.result_code = sync_keys_outcome.error_code

\* The key creator has just been called with the instructions collected from
\* the response and the server's Diffie-Hellman key.
KeyCreatorCalled ==
  /\ state = kWaitingForKeyCreation
  /\ timer = "kErrorTimeoutWaitingForKeyCreation"
  /\ create_keys_call.status = "pending"
  /\ create_keys_call.new_keys_to_create
       = sync_keys_outcome.new_keys_to_create
  /\ create_keys_call.server_ephemeral_dh.public_key =
       IF sync_keys_outcome.server_ephemeral_dh = "" THEN None
       ELSE sync_keys_outcome.server_ephemeral_dh

\* C9 as stated: a valid response that yields a creation instruction leads to
\* kWaitingForKeyCreation and a key-creator call, whether or not a bundle
\* recorded an error.
C9_KeyCreationDespiteError ==
  [][(/\ SyncKeysSuccessStep
      /\ ValidResponseProcessed'
      /\ DOMAIN sync_keys_outcome'.new_keys_to_create # {}) =>
       KeyCreatorCalled']_vars

\* C9: a valid response that yields a creation instruction and records no
\* error leads to kWaitingForKeyCreation and a key-creator call with exactly
\* the collected instructions and the server's Diffie-Hellman key; if a
\* bundle recorded an error the attempt finishes with it and the key creator
\* is not called.
C9_KeyCreationUnlessError ==
  [][(/\ SyncKeysSuccessStep
      /\ ValidResponseProcessed'
      /\ DOMAIN sync_keys_outcome'.new_keys_to_create # {}) =>
       IF sync_keys_outcome'.error_code = None
       THEN KeyCreatorCalled'
       ELSE /\ state' = kFinished
            /\ create_keys_call'.status = "none"
            /\ LastResult'.result_code = sync_keys_outcome'.error_code]_vars

\* The key creator was called for both bundles, with the server's
\* Diffie-Hellman key, after a key action was applied.
C9_Witness ==
  /\ KeyCreatorCalled
  /\ DOMAIN create_keys_call.new_keys_to_create = BundleNames
  /\ create_keys_call.server_ephemeral_dh.public_key = "server_dh"
  /\ registry_calls # <<>>

\* The results reported since the SyncKeys response was received.
ResultsSinceResponse ==
  {i \in 1..Len(results) : i > sync_keys_outcome.results_before}

\* The client directive passes the checks of CheckSyncKeysResponse.
ValidClientDirective(client_directive) ==
  /\ client_directive.has_value
  /\ client_directive.checkin_delay_millis > 0
  /\ client_directive.retry_attempts >= 0
  /\ client_directive.retry_period_millis > 0

\* C10 as stated: every result reported once a SyncKeys response with a valid
\* client directive is received carries that client directive, also when the
\* response is rejected.
C10_DirectiveOfAnyResponse ==
  (sync_keys_outcome.received
     /\ ValidClientDirective(sync_keys_outcome.client_directive)) =>
    \A i \in ResultsSinceResponse :
      results[i].client_directive = sync_keys_outcome.client_directive

\* C10: every result reported once a SyncKeys response is received carries
\* the client directive of the response if the response is not an overload
\* response and passes CheckSyncKeysResponse, and no client directive
\* otherwise.
C10_DirectiveOfValidResponse ==
  sync_keys_outcome.received =>
    /\ ResultsSinceResponse # {} \/ state # kFinished
    /\ \A i \in ResultsSinceResponse :
         results[i].client_directive =
           IF sync_keys_outcome.result_before_processing = None
           THEN sync_keys_outcome.client_directive
           ELSE NoClientDirective

\* A response with a valid client directive and a wrong number of bundle
\* responses was rejected, and the result carries no client directive.
C10_Witness ==
  /\ sync_keys_outcome.received
  /\ sync_keys_outcome.result_before_processing
       = "kErrorWrongNumberOfSyncSingleKeyResponses"
  /\ sync_keys_outcome.client_directive = ClientDirective(2, 0, 1)
  /\ results # <<>>
  /\ LastResult.client_directive = NoClientDirective

\* The response the SyncKeys call completed with.
ReceivedResponse == sync_keys_outcome.response

\* The result reported by the handler of the SyncKeys response.
ResultOfResponse == results[sync_keys_outcome.results_before + 1]

\* The handler of the SyncKeys response finished the attempt with this code,
\* and nothing was reported since.
FinishedByResponse(result_code) ==
  /\ state = kFinished
  /\ Len(results) = sync_keys_outcome.results_before + 1
  /\ ResultOfResponse.result_code = result_code

\* C11: a response with server_status SERVER_OVERLOADED finishes the attempt
\* with kErrorCryptAuthServerOverloaded whatever else it contains: no registry
\* mutator is called, no key is collected for creation, and neither the key
\* creator nor EnrollKeys is called.
C11_OverloadedFinishesAtOnce ==
  (sync_keys_outcome.received
     /\ ReceivedResponse.server_status = "SERVER_OVERLOADED") =>
    /\ FinishedByResponse("kErrorCryptAuthServerOverloaded")
    /\ registry_calls = <<>>
    /\ sync_keys_outcome.new_keys_to_create = EmptyMap
    /\ create_keys_call.status = "none"
    /\ enroll_keys_call.status = "none"

\* An overloaded response that is otherwise valid and asks for a new key, for
\* bundles recorded with no handles: processing it would have created a key.
C11_Witness ==
  /\ sync_keys_outcome.received
  /\ ReceivedResponse.server_status = "SERVER_OVERLOADED"
  /\ CheckSyncKeysResponse(ReceivedResponse, Len(GetKeyBundleOrder)) = None
  /\ ReceivedResponse.sync_single_key_responses[1].key_creation = "ACTIVE"
  /\ \A bundle_name \in BundleNames : key_handle_orders[bundle_name] = <<>>
  /\ FinishedByResponse("kErrorCryptAuthServerOverloaded")

\* C12: a response that is not overloaded, has a session id and a valid
\* client directive but a number of bundle responses other than the number of
\* bundles finishes the attempt with
\* kErrorWrongNumberOfSyncSingleKeyResponses, and no registry mutator is called.
C12_WrongCountRejected ==
  (/\ sync_keys_outcome.received
   /\ ReceivedResponse.server_status # "SERVER_OVERLOADED"
   /\ ReceivedResponse.random_session_id # ""
   /\ ValidClientDirective(ReceivedResponse.client_directive)
   /\ Len(ReceivedResponse.sync_single_key_responses)
        # Len(GetKeyBundleOrder)) =>
    /\ FinishedByResponse("kErrorWrongNumberOfSyncSingleKeyResponses")
    /\ registry_calls = <<>>
    /\ registry[kUserKeyPair].handles
         = {key_handle_orders[kUserKeyPair][i] :
              i \in 1..Len(key_handle_orders[kUserKeyPair])}

\* Three bundle responses that each delete the one key of their bundle were
\* rejected, and the key of the kUserKeyPair bundle is still there.
C12_Witness ==
  /\ sync_keys_outcome.received
  /\ ReceivedResponse.server_status = "OK"
  /\ Len(ReceivedResponse.sync_single_key_responses) = 3
  /\ ReceivedResponse.sync_single_key_responses[1].key_actions = <<"DELETE">>
  /\ Len(key_handle_orders[kUserKeyPair]) = 1
  /\ key_handle_orders[kUserKeyPair][1] \in registry[kUserKeyPair].handles
  /\ FinishedByResponse("kErrorWrongNumberOfSyncSingleKeyResponses")

\* The position of a bundle in the SyncKeys request and response.
BundleIndex(bundle_name) ==
  CHOOSE i \in 1..Len(GetKeyBundleOrder) : GetKeyBundleOrder[i] = bundle_name

\* The response received for one bundle.
BundleResponse(bundle_name) ==
  ReceivedResponse.sync_single_key_responses[BundleIndex(bundle_name)]

\* The key actions received for one bundle.
KeyActionsOf(bundle_name) == BundleResponse(bundle_name).key_actions

\* The positions of one action in the key actions of a bundle.
Positions(bundle_name, key_action) ==
  {i \in 1..Len(KeyActionsOf(bundle_name)) :
     KeyActionsOf(bundle_name)[i] = key_action}

\* The key actions of the bundle are one per recorded handle and all of them
\* ACTIVATE, DEACTIVATE or DELETE.
PositionalKeyActions(bundle_name) ==
  /\ Len(KeyActionsOf(bundle_name)) = Len(key_handle_orders[bundle_name])
  /\ \A i \in 1..Len(KeyActionsOf(bundle_name)) :
       KeyActionsOf(bundle_name)[i] \in {"ACTIVATE", "DEACTIVATE", "DELETE"}

\* A valid key-action list: positional, at most one ACTIVATE, and an ACTIVATE
\* unless every handle is deleted.
ValidKeyActions(bundle_name) ==
  /\ PositionalKeyActions(bundle_name)
  /\ Cardinality(Positions(bundle_name, "ACTIVATE")) <= 1
  /\ \/ Positions(bundle_name, "ACTIVATE") # {}
     \/ Positions(bundle_name, "DELETE")
          = 1..Len(key_handle_orders[bundle_name])

\* The calls of one mutator on one handle of one bundle.
CallsOn(op, bundle_name, handle) ==
  {i \in CallsOf(op, bundle_name) : registry_calls[i].handle = handle}

\* No key action was applied to the bundle.
NoKeyActionCalls(bundle_name) ==
  /\ CallsOf("DeleteKey", bundle_name) = {}
  /\ CallsOf("SetActiveKey", bundle_name) = {}

\* The key actions of the bundle were applied: one DeleteKey call for each
\* handle at a DELETE position, one SetActiveKey call for the handle at the
\* ACTIVATE position, and no other DeleteKey or SetActiveKey call.
KeyActionsApplied(bundle_name) ==
  /\ \A i \in Positions(bundle_name, "DELETE") :
       Cardinality(CallsOn("DeleteKey", bundle_name,
                           key_handle_orders[bundle_name][i])) = 1
  /\ \A i \in Positions(bundle_name, "ACTIVATE") :
       Cardinality(CallsOn("SetActiveKey", bundle_name,
                           key_handle_orders[bundle_name][i])) = 1
  /\ Cardinality(CallsOf("DeleteKey", bundle_name))
       = Cardinality(Positions(bundle_name, "DELETE"))
  /\ Cardinality(CallsOf("SetActiveKey", bundle_name))
       = Cardinality(Positions(bundle_name, "ACTIVATE"))

\* Every bundle before this one in bundle order has valid key actions and no
\* key-creation request, so none of them recorded an error.
NoEarlierError(bundle_name) ==
  \A i \in 1..(BundleIndex(bundle_name) - 1) :
    /\ ValidKeyActions(GetKeyBundleOrder[i])
    /\ BundleResponse(GetKeyBundleOrder[i]).key_creation = "NONE"

\* C13: a bundle whose key actions hold two or more ACTIVATE records an error
\* (kErrorKeyActionsSpecifyMultipleActiveKeys when the list is positional and
\* no earlier bundle failed) and gets no DeleteKey or SetActiveKey call, not
\* even for a DELETE before the second ACTIVATE; every other bundle with
\* valid key actions has them applied.
C13_TwoActivatesRejectBundle ==
  ValidResponseProcessed =>
    \A bundle_name \in BundleNames :
      Cardinality(Positions(bundle_name, "ACTIVATE")) >= 2 =>
        /\ sync_keys_outcome.error_code # None
        /\ (PositionalKeyActions(bundle_name)
              /\ NoEarlierError(bundle_name)) =>
             sync_keys_outcome.error_code
               = "kErrorKeyActionsSpecifyMultipleActiveKeys"
        /\ NoKeyActionCalls(bundle_name)
        /\ \A other \in BundleNames \ {bundle_name} :
             ValidKeyActions(other) => KeyActionsApplied(other)

\* Key actions DELETE, ACTIVATE, ACTIVATE for three recorded handles of
\* kUserKeyPair were rejected, and the one key of kLegacyMasterKey was deleted.
C13_Witness ==
  /\ ValidResponseProcessed
  /\ Len(key_handle_orders[kUserKeyPair]) = 3
  /\ KeyActionsOf(kUserKeyPair) = <<"DELETE", "ACTIVATE", "ACTIVATE">>
  /\ KeyActionsOf(kLegacyMasterKey) = <<"DELETE">>
  /\ Len(key_handle_orders[kLegacyMasterKey]) = 1
  /\ NoKeyActionCalls(kUserKeyPair)
  /\ Cardinality(CallsOf("DeleteKey", kLegacyMasterKey)) = 1
  /\ sync_keys_outcome.error_code
       = "kErrorKeyActionsSpecifyMultipleActiveKeys"

\* Nothing was collected from the key-creation request of the bundle.
NoKeyCreationCollected(bundle_name) ==
  /\ bundle_name \notin DOMAIN sync_keys_outcome.new_keys_to_create
  /\ bundle_name \notin DOMAIN sync_keys_outcome.new_key_directives

\* C14: a bundle recorded with handles whose key actions mark not all of them
\* DELETE and none ACTIVATE records an error
\* (kErrorKeyActionsDoNotSpecifyAnActiveKey when the list is positional and no
\* earlier bundle failed), gets no DeleteKey or SetActiveKey call and has its
\* key-creation request left unprocessed; every other bundle with valid key
\* actions has them applied.
C14_NoActiveKeyRejectsBundle ==
  ValidResponseProcessed =>
    \A bundle_name \in BundleNames :
      (/\ key_handle_orders[bundle_name] # <<>>
       /\ Positions(bundle_name, "ACTIVATE") = {}
       /\ Positions(bundle_name, "DELETE")
            # 1..Len(key_handle_orders[bundle_name])) =>
        /\ sync_keys_outcome.error_code # None
        /\ (PositionalKeyActions(bundle_name)
              /\ NoEarlierError(bundle_name)) =>
             sync_keys_outcome.error_code
               = "kErrorKeyActionsDoNotSpecifyAnActiveKey"
        /\ NoKeyActionCalls(bundle_name)
        /\ NoKeyCreationCollected(bundle_name)
        /\ \A other \in BundleNames \ {bundle_name} :
             ValidKeyActions(other) => KeyActionsApplied(other)

\* Key actions DELETE, DEACTIVATE for two recorded handles of kUserKeyPair,
\* with a request for a new key, were rejected and no key was collected for
\* the bundle; the one key of kLegacyMasterKey was deleted.
C14_Witness ==
  /\ ValidResponseProcessed
  /\ KeyActionsOf(kUserKeyPair) = <<"DELETE", "DEACTIVATE">>
  /\ Len(key_handle_orders[kUserKeyPair]) = 2
  /\ BundleResponse(kUserKeyPair).key_creation # "NONE"
  /\ KeyActionsOf(kLegacyMasterKey) = <<"DELETE">>
  /\ Len(key_handle_orders[kLegacyMasterKey]) = 1
  /\ NoKeyActionCalls(kUserKeyPair)
  /\ NoKeyCreationCollected(kUserKeyPair)
  /\ Cardinality(CallsOf("DeleteKey", kLegacyMasterKey)) = 1
  /\ sync_keys_outcome.error_code = "kErrorKeyActionsDoNotSpecifyAnActiveKey"

\* The key-action errors.
KeyActionErrors ==
  {"kErrorWrongNumberOfKeyActions", "kErrorInvalidKeyActionEnumValue",
   "kErrorKeyActionsSpecifyMultipleActiveKeys",
   "kErrorKeyActionsDoNotSpecifyAnActiveKey"}

\* The key-creation request of the bundle can be met: a key of a supported
\* type, with the server's Diffie-Hellman key if the key is symmetric.
CreatableKeyRequested(bundle_name) ==
  /\ BundleResponse(bundle_name).key_creation \in {"ACTIVE", "INACTIVE"}
  /\ BundleResponse(bundle_name).key_type \in {"RAW128", "RAW256", "P256"}
  /\ \/ BundleResponse(bundle_name).key_type = "P256"
     \/ ReceivedResponse.server_ephemeral_dh # ""

\* The key-creation request of the bundle was processed: a request that can
\* be met was collected with its key directive, a request that cannot
\* recorded an error, and no request left nothing.
KeyCreationProcessed(bundle_name) ==
  IF CreatableKeyRequested(bundle_name)
  THEN /\ bundle_name \in DOMAIN sync_keys_outcome.new_keys_to_create
       /\ sync_keys_outcome.new_keys_to_create[bundle_name] =
            CreateKeyData(
              IF BundleResponse(bundle_name).key_creation = "ACTIVE"
              THEN "kActive" ELSE "kInactive",
              BundleResponse(bundle_name).key_type,
              IF bundle_name = kUserKeyPair THEN "device_key" ELSE None)
       /\ IF BundleResponse(bundle_name).key_directive = None
          THEN bundle_name
                 \notin DOMAIN sync_keys_outcome.new_key_directives
          ELSE /\ bundle_name
                    \in DOMAIN sync_keys_outcome.new_key_directives
               /\ sync_keys_outcome.new_key_directives[bundle_name]
                    = BundleResponse(bundle_name).key_directive
  ELSE /\ NoKeyCreationCollected(bundle_name)
       /\ BundleResponse(bundle_name).key_creation # "NONE" =>
            sync_keys_outcome.error_code # None

\* Every recorded handle of the bundle is marked DELETE.
AllHandlesDeleted(bundle_name) ==
  /\ Len(KeyActionsOf(bundle_name)) = Len(key_handle_orders[bundle_name])
  /\ Positions(bundle_name, "DELETE")
       = 1..Len(key_handle_orders[bundle_name])

\* C15: a bundle whose every recorded handle is marked DELETE (a bundle with
\* no handle and no action included) is accepted: DeleteKey is called once
\* for each of its handles, SetActiveKey is not called, its key-creation
\* request is processed, and a key-action error is recorded only if another
\* bundle has invalid key actions.
C15_AllDeletedAccepted ==
  ValidResponseProcessed =>
    \A bundle_name \in BundleNames :
      AllHandlesDeleted(bundle_name) =>
        /\ \A i \in 1..Len(key_handle_orders[bundle_name]) :
             Cardinality(CallsOn("DeleteKey", bundle_name,
                                 key_handle_orders[bundle_name][i])) = 1
        /\ Cardinality(CallsOf("DeleteKey", bundle_name))
             = Len(key_handle_orders[bundle_name])
        /\ CallsOf("SetActiveKey", bundle_name) = {}
        /\ KeyCreationProcessed(bundle_name)
        /\ sync_keys_outcome.error_code \in KeyActionErrors =>
             \E other \in BundleNames \ {bundle_name} :
               ~ValidKeyActions(other)

\* All three keys of kUserKeyPair were deleted and a key collected for it;
\* kLegacyMasterKey, which had no key and got no action, was accepted too: no
\* error was recorded.
C15_Witness ==
  /\ ValidResponseProcessed
  /\ KeyActionsOf(kUserKeyPair) = <<"DELETE", "DELETE", "DELETE">>
  /\ Len(key_handle_orders[kUserKeyPair]) = 3
  /\ Cardinality(CallsOf("DeleteKey", kUserKeyPair)) = 3
  /\ CallsOf("SetActiveKey", kUserKeyPair) = {}
  /\ key_handle_orders[kLegacyMasterKey] = <<>>
  /\ KeyActionsOf(kLegacyMasterKey) = <<>>
  /\ DOMAIN sync_keys_outcome.new_keys_to_create = {kUserKeyPair}
  /\ sync_keys_outcome.error_code = None

\* C16: for a bundle with valid key actions, DeleteKey is called exactly once
\* for each handle at a DELETE position and for no other handle, SetActiveKey
\* exactly once for the handle at the ACTIVATE position, if any, and for no
\* other handle, and neither is called for a handle at a DEACTIVATE position.
C16_KeyActionsAppliedPositionally ==
  ValidResponseProcessed =>
    \A bundle_name \in BundleNames :
      ValidKeyActions(bundle_name) =>
        /\ \A i \in 1..Len(key_handle_orders[bundle_name]) :
             /\ Cardinality(CallsOn("DeleteKey", bundle_name,
                                    key_handle_orders[bundle_name][i]))
                  = IF KeyActionsOf(bundle_name)[i] = "DELETE" THEN 1 ELSE 0
             /\ Cardinality(CallsOn("SetActiveKey", bundle_name,
                                    key_handle_orders[bundle_name][i]))
                  = IF KeyActionsOf(bundle_name)[i] = "ACTIVATE" THEN 1
                    ELSE 0
        /\ Cardinality(CallsOf("DeleteKey", bundle_name))
             = Cardinality(Positions(bundle_name, "DELETE"))
        /\ Cardinality(CallsOf("SetActiveKey", bundle_name))
             = Cardinality(Positions(bundle_name, "ACTIVATE"))

\* Three handles with key actions DELETE, ACTIVATE, DEACTIVATE: one DeleteKey
\* call on the first handle and one SetActiveKey call on the second.
C16_Witness ==
  /\ ValidResponseProcessed
  /\ Len(key_handle_orders[kUserKeyPair]) = 3
  /\ KeyActionsOf(kUserKeyPair) = <<"DELETE", "ACTIVATE", "DEACTIVATE">>
  /\ Cardinality(CallsOf("DeleteKey", kUserKeyPair)) = 1
  /\ Cardinality(CallsOf("SetActiveKey", kUserKeyPair)) = 1
  /\ CallsOn("DeleteKey", kUserKeyPair, key_handle_orders[kUserKeyPair][1])
       # {}
  /\ CallsOn("SetActiveKey", kUserKeyPair,
             key_handle_orders[kUserKeyPair][2]) # {}

\* The response asks for a symmetric key for the bundle.
SymmetricKeyRequested(bundle_name) ==
  /\ BundleResponse(bundle_name).key_creation \in {"ACTIVE", "INACTIVE"}
  /\ BundleResponse(bundle_name).key_type \in {"RAW128", "RAW256"}

\* C17: when the response has no server Diffie-Hellman key, a bundle asked
\* to create a symmetric key records an error
\* (kErrorSymmetricKeyCreationMissingServerDiffieHellman when its key actions
\* are valid and no earlier bundle failed) and has nothing collected for
\* creation, while its own valid key actions and those of every other bundle
\* are applied and the other bundles' key-creation requests are processed;
\* and the key creator is never given a symmetric key to create without the
\* server's Diffie-Hellman key.
C17_SymmetricKeyNeedsServerDh ==
  /\ (ValidResponseProcessed /\ ReceivedResponse.server_ephemeral_dh = "") =>
       \A bundle_name \in BundleNames :
         SymmetricKeyRequested(bundle_name) =>
           /\ sync_keys_outcome.error_code # None
           /\ (ValidKeyActions(bundle_name) /\ NoEarlierError(bundle_name)) =>
                sync_keys_outcome.error_code =
                  "kErrorSymmetricKeyCreationMissingServerDiffieHellman"
           /\ NoKeyCreationCollected(bundle_name)
           /\ ValidKeyActions(bundle_name) => KeyActionsApplied(bundle_name)
           /\ \A other \in BundleNames \ {bundle_name} :
                ValidKeyActions(other) =>
                  /\ KeyActionsApplied(other)
                  /\ KeyCreationProcessed(other)
  /\ create_keys_call.status # "none" =>
       \A bundle_name \in DOMAIN create_keys_call.new_keys_to_create :
         create_keys_call.new_keys_to_create[bundle_name].type
             \in {"RAW128", "RAW256"} =>
           create_keys_call.server_ephemeral_dh.public_key # None

\* Without a server Diffie-Hellman key kLegacyMasterKey was asked for a
\* symmetric key: the error was recorded and nothing collected for it, after
\* the key of kUserKeyPair was deleted and an asymmetric key collected for
\* that bundle.
C17_Witness ==
  /\ ValidResponseProcessed
  /\ ReceivedResponse.server_ephemeral_dh = ""
  /\ SymmetricKeyRequested(kLegacyMasterKey)
  /\ ValidKeyActions(kLegacyMasterKey)
  /\ NoKeyCreationCollected(kLegacyMasterKey)
  /\ Cardinality(CallsOf("DeleteKey", kUserKeyPair)) = 1
  /\ DOMAIN sync_keys_outcome.new_keys_to_create = {kUserKeyPair}
  /\ sync_keys_outcome.error_code
       = "kErrorSymmetricKeyCreationMissingServerDiffieHellman"
  /\ create_keys_call.status = "none"

\* The per-bundle requests of the SyncKeys request sent.
SentSingleKeyRequests == sync_keys_call.request.sync_single_key_requests

\* C18: the SyncKeys request holds exactly one per-bundle request for each
\* bundle name, in the order of GetKeyBundleOrder, whatever the registry
\* holds.
C18_OneRequestPerBundleInOrder ==
  sync_keys_call.status # "none" =>
    /\ Len(SentSingleKeyRequests) = Len(GetKeyBundleOrder)
    /\ \A i \in 1..Len(GetKeyBundleOrder) :
         SentSingleKeyRequests[i].key_name
           = KeyBundleNameEnumToString(GetKeyBundleOrder[i])
    /\ \A bundle_name \in BundleNames :
         Cardinality({i \in 1..Len(SentSingleKeyRequests) :
                        SentSingleKeyRequests[i].key_name
                          = KeyBundleNameEnumToString(bundle_name)}) = 1

\* The request was sent from a registry where kUserKeyPair holds no key and
\* kLegacyMasterKey is missing, and has a request for both.
C18_Witness ==
  /\ state = kWaitingForSyncKeysResponse
  /\ sync_keys_call.status = "pending"
  /\ registry[kUserKeyPair].present
  /\ registry[kUserKeyPair].handles = {}
  /\ ~registry[kLegacyMasterKey].present
  /\ Len(SentSingleKeyRequests) = 2
  /\ SentSingleKeyRequests[2].key_name
       = KeyBundleNameEnumToString(kLegacyMasterKey)
  /\ SentSingleKeyRequests[2].key_handles = <<>>

\* C19: the handle order recorded for a bundle when the SyncKeys request is
\* built is the handle list of the bundle's request, there is one for every
\* bundle name, and no later step of the attempt changes it.
C19_HandleOrdersRecordedAndFixed ==
  [][/\ state # kNotStarted => key_handle_orders' = key_handle_orders
     /\ sync_keys_call'.status # "none" =>
          /\ DOMAIN key_handle_orders' = BundleNames
          /\ \A i \in 1..Len(GetKeyBundleOrder) :
               key_handle_orders'[GetKeyBundleOrder[i]]
                 = SentSingleKeyRequests'[i].key_handles]_vars

\* Two of the three keys of kUserKeyPair were deleted from the registry; the
\* recorded handle order still has all three, as sent; the order recorded
\* for the missing kLegacyMasterKey bundle is empty.
C19_Witness ==
  /\ ValidResponseProcessed
  /\ Len(key_handle_orders[kUserKeyPair]) = 3
  /\ key_handle_orders[kUserKeyPair] = SentSingleKeyRequests[1].key_handles
  /\ Cardinality(registry[kUserKeyPair].handles) = 1
  /\ Cardinality(CallsOf("DeleteKey", kUserKeyPair)) = 2
  /\ ~registry[kLegacyMasterKey].present
  /\ key_handle_orders[kLegacyMasterKey] = <<>>

\* C20: a bundle whose number of key actions differs from the number of
\* handles recorded for it records an error (kErrorWrongNumberOfKeyActions
\* when no earlier bundle failed), gets no DeleteKey or SetActiveKey call and
\* has its key-creation request left unprocessed.
C20_WrongActionCountRejectsBundle ==
  ValidResponseProcessed =>
    \A bundle_name \in BundleNames :
      Len(KeyActionsOf(bundle_name)) # Len(key_handle_orders[bundle_name]) =>
        /\ sync_keys_outcome.error_code # None
        /\ NoEarlierError(bundle_name) =>
             sync_keys_outcome.error_code = "kErrorWrongNumberOfKeyActions"
        /\ NoKeyActionCalls(bundle_name)
        /\ NoKeyCreationCollected(bundle_name)

\* kUserKeyPair was recorded with no handle and got one DELETE action, and
\* kLegacyMasterKey was recorded with one handle and got no action: both were
\* rejected and no registry call was made.
C20_Witness ==
  /\ ValidResponseProcessed
  /\ key_handle_orders[kUserKeyPair] = <<>>
  /\ KeyActionsOf(kUserKeyPair) = <<"DELETE">>
  /\ Len(key_handle_orders[kLegacyMasterKey]) = 1
  /\ KeyActionsOf(kLegacyMasterKey) = <<>>
  /\ registry_calls = <<>>
  /\ sync_keys_outcome.error_code = "kErrorWrongNumberOfKeyActions"
  /\ FinishedByResponse("kErrorWrongNumberOfKeyActions")

\* The key creator completed and ComputeKeyProof failed, or returned an
\* empty proof, for at least one of the new keys.
KeyProofFailure ==
  /\ create_keys_call.status = "done"
  /\ \E bundle_name \in DOMAIN create_keys_call.key_proofs :
       \/ create_keys_call.key_proofs[bundle_name] = None
       \/ create_keys_call.key_proofs[bundle_name] = ""

\* C21: when the proof of any one created key fails or is empty, the attempt
\* is finished with kErrorKeyProofComputationFailed, no EnrollKeys request is
\* ever sent, the state is not kWaitingForEnrollKeysResponse, and no key and
\* no key directive is committed to the registry.
C21_KeyProofFailureEndsAttempt ==
  KeyProofFailure =>
    /\ state = kFinished
    /\ timer = None
    /\ LastResult.result_code = "kErrorKeyProofComputationFailed"
    /\ enroll_keys_call = NoCall
    /\ CommitCalls = <<>>

\* Two keys were created in time, the proof of one was computed and the
\* proof of the other came back empty.
C21_Witness ==
  /\ KeyProofFailure
  /\ DOMAIN create_keys_call.key_proofs = {kUserKeyPair, kLegacyMasterKey}
  /\ \E bundle_name \in DOMAIN create_keys_call.key_proofs :
       create_keys_call.key_proofs[bundle_name] = "key_proof"
  /\ \E bundle_name \in DOMAIN create_keys_call.key_proofs :
       create_keys_call.key_proofs[bundle_name] = ""
  /\ Len(results) = 1

\* C22: each of the two network-error mappings gives different codes to
\* different errors and no code belongs to both, so that a reported code of
\* either mapping tells which call failed and with which error.
C22_NetworkErrorCodesTellPhaseAndError ==
  /\ LET sync_keys_codes ==
           {SyncKeysNetworkRequestErrorToResultCode(error) :
              error \in NetworkRequestErrors}
         enroll_keys_codes ==
           {EnrollKeysNetworkRequestErrorToResultCode(error) :
              error \in NetworkRequestErrors}
     IN /\ Cardinality(sync_keys_codes) = Cardinality(NetworkRequestErrors)
        /\ Cardinality(enroll_keys_codes) = Cardinality(NetworkRequestErrors)
        /\ sync_keys_codes \cap enroll_keys_codes = {}
  /\ \A i \in 1..Len(results) : \A error \in NetworkRequestErrors :
       /\ results[i].result_code
             = SyncKeysNetworkRequestErrorToResultCode(error)
            => sync_keys_call.error = error
       /\ results[i].result_code
             = EnrollKeysNetworkRequestErrorToResultCode(error)
            => enroll_keys_call.error = error

\* The EnrollKeys call failed with the error the SyncKeys call could have
\* failed with, and the code reported names the EnrollKeys call.
C22_Witness ==
  /\ sync_keys_call.error = None
  /\ enroll_keys_call.error = "kOffline"
  /\ LastResult.result_code = "kErrorEnrollKeysApiCallOffline"

\* The SyncKeys call fails in this step while its response is awaited.
SyncKeysFailureStep ==
  /\ state = kWaitingForSyncKeysResponse
  /\ sync_keys_call.status = "pending"
  /\ sync_keys_call'.error # None

\* The EnrollKeys call fails in this step while its response is awaited.
EnrollKeysFailureStep ==
  /\ state = kWaitingForEnrollKeysResponse
  /\ enroll_keys_call.status = "pending"
  /\ enroll_keys_call'.error # None

\* What a failure handler leaves alone: the registry and the calls other
\* than its own.
NoMutationAndNoRequest ==
  /\ registry' = registry
  /\ registry_calls' = registry_calls
  /\ create_keys_call' = create_keys_call
  /\ sync_keys_call'.status # "pending"
  /\ enroll_keys_call'.status # "pending"

\* C23: a network failure of SyncKeys or EnrollKeys that arrives in the
\* waiting state of that call finishes the attempt in the same step with the
\* code of that call for the error, changes nothing in the registry and
\* sends no request; a call that failed is not made again.
C23_NetworkFailureEndsAttempt ==
  [][/\ SyncKeysFailureStep =>
          /\ state' = kFinished
          /\ timer' = None
          /\ results' =
               Append(results,
                      CryptAuthEnrollmentResult(
                        SyncKeysNetworkRequestErrorToResultCode(
                          sync_keys_call'.error),
                        new_client_directive))
          /\ enroll_keys_call' = enroll_keys_call
          /\ NoMutationAndNoRequest
     /\ EnrollKeysFailureStep =>
          /\ state' = kFinished
          /\ timer' = None
          /\ results' =
               Append(results,
                      CryptAuthEnrollmentResult(
                        EnrollKeysNetworkRequestErrorToResultCode(
                          enroll_keys_call'.error),
                        new_client_directive))
          /\ sync_keys_call' = sync_keys_call
          /\ NoMutationAndNoRequest
     /\ sync_keys_call.error # None => sync_keys_call' = sync_keys_call
     /\ enroll_keys_call.error # None =>
          enroll_keys_call' = enroll_keys_call]_vars

\* The EnrollKeys call failed while it was awaited, after key actions were
\* applied in the same attempt, and nothing was reported before.
C23_Witness ==
  /\ enroll_keys_call.error = "kInternalServerError"
  /\ state = kFinished
  /\ Len(results) = 1
  /\ LastResult.result_code = "kErrorEnrollKeysApiCallInternalServerError"
  /\ registry_calls # <<>>
  /\ CommitCalls = <<>>

\* C24: the attempt starts only from kNotStarted, so that one instance
\* sends at most one SyncKeys request. OnAttemptStarted has no check of the
\* state other than a DCHECK: where DCHECKs are compiled out, a start in
\* another state sends a second request and arms the timer again.
C24_AtMostOneSyncKeysRequest ==
  sync_keys_call # NoCall => sync_keys_call.sent = 1

\* The asynchronous operations that have been issued and have not completed.
AwaitedOperations ==
  {op \in {"SyncKeys", "CreateKeys", "EnrollKeys"} :
     \/ op = "SyncKeys" /\ sync_keys_call.status = "pending"
     \/ op = "CreateKeys" /\ create_keys_call.status = "pending"
     \/ op = "EnrollKeys" /\ enroll_keys_call.status = "pending"}

\* C25: at most one of the SyncKeys call, the key creation and the EnrollKeys
\* call is awaited at a time; the key creation is issued only in the step in
\* which the SyncKeys call succeeds and the EnrollKeys call only in the step
\* in which the key creation completes.
C25_OneOperationAtATime ==
  [][/\ Cardinality(AwaitedOperations) <= 1
     /\ Cardinality(AwaitedOperations') <= 1
     /\ (create_keys_call.status # "pending"
          /\ create_keys_call'.status = "pending") =>
          /\ sync_keys_call.status = "pending"
          /\ sync_keys_call'.status = "done"
          /\ sync_keys_call'.error = None
     /\ (enroll_keys_call.status # "pending"
          /\ enroll_keys_call'.status = "pending") =>
          /\ create_keys_call.status = "pending"
          /\ create_keys_call'.status = "done"
     /\ (sync_keys_call.status # "pending"
          /\ sync_keys_call'.status = "pending") =>
          /\ state = kNotStarted
          /\ AwaitedOperations = {}]_vars

\* The EnrollKeys call is the one awaited, the two operations before it
\* having completed.
C25_Witness ==
  /\ AwaitedOperations = {"EnrollKeys"}
  /\ sync_keys_call.status = "done"
  /\ create_keys_call.status = "done"
  /\ state = kWaitingForEnrollKeysResponse

\* The states in which the enroller waits for a completion.
WaitingStates ==
  {kWaitingForSyncKeysResponse, kWaitingForKeyCreation,
   kWaitingForEnrollKeysResponse}

\* C26 as stated: every state other than kFinished, kNotStarted among them,
\* has a timeout. GetTimeoutForState gives kNotStarted none.
C26_EveryNonTerminalStateHasTimeout ==
  state # kFinished => GetTimeoutForState(state) # None

\* C26: the states with a timeout are the three waiting states, each with
\* its own; kNotStarted and kFinished have none.
C26_WaitingStatesHaveTimeout ==
  /\ \A s \in States : GetTimeoutForState(s) # None <=> s \in WaitingStates
  /\ \A s, t \in WaitingStates :
       s # t => GetTimeoutForState(s) # GetTimeoutForState(t)
  /\ state = kNotStarted => timer = None

\* The wait for the key creator is under its timeout.
C26_Witness ==
  /\ state = kWaitingForKeyCreation
  /\ GetTimeoutForState(state) = "kWaitingForKeyCreationTimeout"
  /\ timer # None

\* The timer is armed in the waiting states and in no other, bound to the
\* timeout code of the state that is current.
TimerOfState ==
  /\ timer # None <=> state \in WaitingStates
  /\ timer = ResultCodeErrorFromState(state)
  /\ state = kWaitingForSyncKeysResponse =>
       timer = "kErrorTimeoutWaitingForSyncKeysResponse"
  /\ state = kWaitingForKeyCreation =>
       timer = "kErrorTimeoutWaitingForKeyCreation"
  /\ state = kWaitingForEnrollKeysResponse =>
       timer = "kErrorTimeoutWaitingForEnrollKeysResponse"

\* This step is the timer firing: a result is reported and no call
\* completes.
TimerFiredStep ==
  /\ results' # results
  /\ sync_keys_call' = sync_keys_call
  /\ create_keys_call' = create_keys_call
  /\ enroll_keys_call' = enroll_keys_call

\* C27: the one timer is armed exactly in the three waiting states, bound
\* to the timeout code of the current state, so that it never fires with the
\* code of an earlier state nor in kFinished; when it fires the attempt
\* finishes with the code of the state it fired in.
C27_TimerBoundToCurrentState ==
  [][/\ TimerOfState
     /\ TimerOfState'
     /\ TimerFiredStep =>
          /\ state \in WaitingStates
          /\ state' = kFinished
          /\ results' =
               Append(results,
                      CryptAuthEnrollmentResult(
                        ResultCodeErrorFromState(state),
                        new_client_directive))]_vars

\* The timers of the two earlier states were replaced and the timer of the
\* third fired: the only result is the EnrollKeys timeout.
C27_Witness ==
  /\ state = kFinished
  /\ timer = None
  /\ enroll_keys_call.status = "pending"
  /\ Len(results) = 1
  /\ LastResult.result_code = "kErrorTimeoutWaitingForEnrollKeysResponse"

\* C28: a started attempt reaches kFinished with a result reported, when
\* nothing is assumed of the completions and the armed timer fires unless it
\* is stopped.
C28_StartedAttemptFinishes ==
  (state \in WaitingStates) ~> (state = kFinished /\ results # <<>>)

\* The attempt finished by the timer alone: no call ever completed.
C28_Witness ==
  /\ state = kFinished
  /\ sync_keys_call.status = "pending"
  /\ results = <<CryptAuthEnrollmentResult(
                   "kErrorTimeoutWaitingForSyncKeysResponse",
                   NoClientDirective)>>

\* The error of one bundle taken alone: that of its key actions, or else
\* that of its key-creation instructions.
BundleError(bundle_name) ==
  LET actions ==
        ProcessKeyActions(KeyActionsOf(bundle_name),
                          key_handle_orders[bundle_name])
  IN IF actions.error_code # None THEN actions.error_code
     ELSE ProcessKeyCreationInstructions(
            bundle_name, BundleResponse(bundle_name),
            ReceivedResponse.server_ephemeral_dh).error_code

\* The positions, in bundle order, of the bundles with an error.
OffendingBundles ==
  {i \in 1..Len(GetKeyBundleOrder) : BundleError(GetKeyBundleOrder[i]) # None}

\* C29: the error recorded for a response is the error of the first bundle,
\* in bundle order, that has one, whether of its key actions or of its key
\* creation, whatever the errors of the bundles after it; and every bundle
\* with valid key actions, after an offending bundle too, has them applied.
C29_FirstBundleErrorWins ==
  ValidResponseProcessed =>
    /\ sync_keys_outcome.error_code =
         IF OffendingBundles = {} THEN None
         ELSE BundleError(GetKeyBundleOrder[
                CHOOSE i \in OffendingBundles :
                  \A j \in OffendingBundles : i <= j])
    /\ \A bundle_name \in BundleNames :
         IF ValidKeyActions(bundle_name)
         THEN KeyActionsApplied(bundle_name)
         ELSE NoKeyActionCalls(bundle_name)

\* The first bundle has valid key actions and asks for a key of a type that
\* is not supported, the second has an unknown key action: the error of the
\* first is the one recorded, and the key of the first was deleted.
C29_Witness ==
  /\ ValidResponseProcessed
  /\ OffendingBundles = {1, 2}
  /\ BundleError(GetKeyBundleOrder[1]) # BundleError(GetKeyBundleOrder[2])
  /\ ValidKeyActions(GetKeyBundleOrder[1])
  /\ ~ValidKeyActions(GetKeyBundleOrder[2])
  /\ CallsOf("DeleteKey", GetKeyBundleOrder[1]) # {}
  /\ sync_keys_outcome.error_code = BundleError(GetKeyBundleOrder[1])

\* The checks the received response fails, numbered in the order in which
\* they are made: session id, client directive, number of bundle responses.
ViolatedChecks ==
  {n \in 1..3 :
     \/ n = 1 /\ ReceivedResponse.random_session_id = ""
     \/ n = 2 /\ ~ValidClientDirective(ReceivedResponse.client_directive)
     \/ n = 3 /\ Len(ReceivedResponse.sync_single_key_responses)
                    # Len(GetKeyBundleOrder)}

\* The result codes of the three checks.
CheckCodes ==
  <<"kErrorSyncKeysResponseMissingRandomSessionId",
    "kErrorSyncKeysResponseInvalidClientDirective",
    "kErrorWrongNumberOfSyncSingleKeyResponses">>

\* C30: a response that is not overloaded and fails one or more of the three
\* checks finishes the attempt with the code of the first check it fails;
\* no registry mutator is called and neither the key creator nor EnrollKeys.
C30_FirstViolatedCheckReported ==
  (/\ sync_keys_outcome.received
   /\ ReceivedResponse.server_status # "SERVER_OVERLOADED"
   /\ ViolatedChecks # {}) =>
    /\ FinishedByResponse(
         CheckCodes[CHOOSE n \in ViolatedChecks :
                      \A m \in ViolatedChecks : n <= m])
    /\ timer = None
    /\ registry_calls = <<>>
    /\ create_keys_call = NoCall
    /\ enroll_keys_call = NoCall

\* A response that fails the second and the third check was rejected with
\* the code of the second, while the registry held keys to delete.
C30_Witness ==
  /\ sync_keys_outcome.received
  /\ ReceivedResponse.server_status = "OK"
  /\ ViolatedChecks = {2, 3}
  /\ ReceivedResponse.client_directive.has_value
  /\ ReceivedResponse.client_directive.retry_attempts < 0
  /\ ReceivedResponse.sync_single_key_responses[1].key_actions = <<"DELETE">>
  /\ Len(key_handle_orders[kUserKeyPair]) = 1
  /\ FinishedByResponse("kErrorSyncKeysResponseInvalidClientDirective")
  /\ registry_calls = <<>>

\* A call is made once and completes once: from not made to pending, from
\* pending to done, and a pending call is the call that was made.
MadeOnce(call, call_after) ==
  /\ call.status = "none" => call_after.status \in {"none", "pending"}
  /\ call.status = "pending" =>
       \/ call_after = call
       \/ call_after.status = "done"
  /\ call.status = "done" => call_after = call

\* C31: one attempt makes at most one SyncKeys call, one key-creation call
\* and one EnrollKeys call, none of them a second time; the key creation is
\* called only when the SyncKeys call has succeeded, and EnrollKeys only when
\* the key creation has completed and a proof of every new key is computed.
C31_EachCallOnceInOrder ==
  [][/\ MadeOnce(sync_keys_call, sync_keys_call')
     /\ MadeOnce(create_keys_call, create_keys_call')
     /\ MadeOnce(enroll_keys_call, enroll_keys_call')
     /\ sync_keys_call'.status # "none" => sync_keys_call'.sent = 1
     /\ create_keys_call'.status # "none" =>
          /\ sync_keys_call'.status = "done"
          /\ sync_keys_call'.error = None
          /\ sync_keys_outcome'.received
     /\ enroll_keys_call'.status # "none" =>
          /\ create_keys_call'.status = "done"
          /\ \A bundle_name \in DOMAIN create_keys_call'.key_proofs :
               create_keys_call'.key_proofs[bundle_name] \notin {None, ""}
          /\ Len(enroll_keys_call'.request.enroll_single_key_requests)
               = Cardinality(DOMAIN create_keys_call'.new_keys_to_create)]_vars

\* The three calls were made and the last of them failed: nothing is pending
\* and the attempt is finished.
C31_Witness ==
  /\ sync_keys_call.status = "done"
  /\ create_keys_call.status = "done"
  /\ enroll_keys_call.status = "done"
  /\ enroll_keys_call.error = "kBadRequest"
  /\ state = kFinished
  /\ Len(results) = 1

\* The positions of the key actions of a bundle that are none of ACTIVATE,
\* DEACTIVATE and DELETE.
UnrecognizedPositions(bundle_name) ==
  {i \in 1..Len(KeyActionsOf(bundle_name)) :
     KeyActionsOf(bundle_name)[i] \notin {"ACTIVATE", "DEACTIVATE", "DELETE"}}

\* The first unrecognized key action of the bundle is the first fault of its
\* key actions: there is one action per recorded handle and at most one
\* ACTIVATE before it.
UnrecognizedActionFoundFirst(bundle_name) ==
  /\ Len(KeyActionsOf(bundle_name)) = Len(key_handle_orders[bundle_name])
  /\ \E p \in UnrecognizedPositions(bundle_name) :
       /\ \A q \in UnrecognizedPositions(bundle_name) : p <= q
       /\ Cardinality({i \in Positions(bundle_name, "ACTIVATE") : i < p}) <= 1

\* C32 as stated: a bundle with an unrecognized key action is rejected with
\* kErrorInvalidKeyActionEnumValue. A list of the wrong length, or with two
\* ACTIVATE before the unrecognized action, is rejected with the code of
\* that fault.
C32_UnrecognizedActionGivesInvalidEnumError ==
  ValidResponseProcessed =>
    \A bundle_name \in BundleNames :
      UnrecognizedPositions(bundle_name) # {} =>
        /\ BundleError(bundle_name) = "kErrorInvalidKeyActionEnumValue"
        /\ NoKeyActionCalls(bundle_name)

\* C32: a bundle with an unrecognized key action is rejected with a
\* key-action error and gets no DeleteKey or SetActiveKey call, whatever
\* valid actions come before it, and nothing is collected for its key
\* creation; the error is kErrorInvalidKeyActionEnumValue when the
\* unrecognized action is the first fault of the list, and it is the error
\* recorded for the response when no earlier bundle failed.
C32_UnrecognizedActionRejectsBundle ==
  ValidResponseProcessed =>
    \A bundle_name \in BundleNames :
      UnrecognizedPositions(bundle_name) # {} =>
        /\ BundleError(bundle_name) \in KeyActionErrors
        /\ sync_keys_outcome.error_code # None
        /\ NoKeyActionCalls(bundle_name)
        /\ NoKeyCreationCollected(bundle_name)
        /\ UnrecognizedActionFoundFirst(bundle_name) =>
             /\ BundleError(bundle_name) = "kErrorInvalidKeyActionEnumValue"
             /\ NoEarlierError(bundle_name) =>
                  sync_keys_outcome.error_code
                    = "kErrorInvalidKeyActionEnumValue"

\* Key actions DELETE, ACTIVATE and an unrecognized value for three recorded
\* handles of kUserKeyPair were rejected and none of them applied.
C32_Witness ==
  /\ ValidResponseProcessed
  /\ Len(key_handle_orders[kUserKeyPair]) = 3
  /\ KeyActionsOf(kUserKeyPair) = <<"DELETE", "ACTIVATE", "UNRECOGNIZED">>
  /\ NoKeyActionCalls(kUserKeyPair)
  /\ FinishedByResponse("kErrorInvalidKeyActionEnumValue")

\* What ProcessKeyCreationInstructions gives for the response received for
\* the bundle.
KeyCreationInstructions(bundle_name) ==
  ProcessKeyCreationInstructions(bundle_name, BundleResponse(bundle_name),
                                 ReceivedResponse.server_ephemeral_dh)

\* The response asks for a key of a type that is none of RAW128, RAW256 and
\* P256.
UnsupportedKeyRequested(bundle_name) ==
  /\ BundleResponse(bundle_name).key_creation \in {"ACTIVE", "INACTIVE"}
  /\ BundleResponse(bundle_name).key_type \notin {"RAW128", "RAW256", "P256"}

\* C33: a key-creation request, ACTIVE or INACTIVE, for a key type that is
\* not supported gives kErrorKeyCreationKeyTypeNotSupported and neither a key
\* to create nor a key directive for the bundle (the error is the bundle's
\* own when its key actions are valid, and the one recorded when no earlier
\* bundle failed); key_creation NONE gives no key to create, no directive
\* and no error, whatever the key type.
C33_UnsupportedKeyTypeRejected ==
  ValidResponseProcessed =>
    \A bundle_name \in BundleNames :
      /\ UnsupportedKeyRequested(bundle_name) =>
           /\ KeyCreationInstructions(bundle_name) =
                [error_code |-> "kErrorKeyCreationKeyTypeNotSupported",
                 new_key_to_create |-> NoCreateKeyData,
                 new_key_directive |-> None]
           /\ NoKeyCreationCollected(bundle_name)
           /\ sync_keys_outcome.error_code # None
           /\ ValidKeyActions(bundle_name) =>
                /\ BundleError(bundle_name)
                     = "kErrorKeyCreationKeyTypeNotSupported"
                /\ NoEarlierError(bundle_name) =>
                     sync_keys_outcome.error_code
                       = "kErrorKeyCreationKeyTypeNotSupported"
      /\ BundleResponse(bundle_name).key_creation = "NONE" =>
           /\ KeyCreationInstructions(bundle_name) =
                [error_code |-> None, new_key_to_create |-> NoCreateKeyData,
                 new_key_directive |-> None]
           /\ NoKeyCreationCollected(bundle_name)
           /\ ValidKeyActions(bundle_name) => BundleError(bundle_name) = None

\* The first bundle was asked for an active key of an unsupported type, with
\* a key directive; the second had key_creation NONE with the same key type
\* and a key directive: the error of the first was reported and nothing was
\* collected.
C33_Witness ==
  /\ ValidResponseProcessed
  /\ UnsupportedKeyRequested(kUserKeyPair)
  /\ BundleResponse(kUserKeyPair).key_directive # None
  /\ ValidKeyActions(kUserKeyPair)
  /\ BundleResponse(kLegacyMasterKey).key_creation = "NONE"
  /\ BundleResponse(kLegacyMasterKey).key_type = "CURVE25519"
  /\ BundleResponse(kLegacyMasterKey).key_directive # None
  /\ ValidKeyActions(kLegacyMasterKey)
  /\ sync_keys_outcome.new_keys_to_create = EmptyMap
  /\ sync_keys_outcome.new_key_directives = EmptyMap
  /\ FinishedByResponse("kErrorKeyCreationKeyTypeNotSupported")

\* The creation instruction of the bundle is the one the response asks for:
\* the fixed handle for kUserKeyPair alone, the status of key_creation, the
\* type of key_type.
InstructionOfResponse(bundle_name, data) ==
  /\ data # NoCreateKeyData
  /\ (data.handle # None) <=> (bundle_name = kUserKeyPair)
  /\ data.handle \in {None, kCryptAuthFixedUserKeyPairHandle}
  /\ (data.status = "kActive")
       <=> (BundleResponse(bundle_name).key_creation = "ACTIVE")
  /\ (data.status = "kInactive")
       <=> (BundleResponse(bundle_name).key_creation = "INACTIVE")
  /\ data.type = BundleResponse(bundle_name).key_type

EnrollSingleKeyRequestsOf(bundle_name) ==
  {i \in DOMAIN enroll_keys_call.request.enroll_single_key_requests :
     enroll_keys_call.request.enroll_single_key_requests[i].key_name
       = KeyBundleNameEnumToString(bundle_name)}

KeyActionsRemain(bundle_name) ==
  /\ \A i \in CallsOf("DeleteKey", bundle_name) :
       registry_calls[i].handle \notin registry[bundle_name].handles
  /\ \A i \in CallsOf("SetActiveKey", bundle_name) :
       registry[bundle_name].active = registry_calls[i].handle

\* C36: when a bundle of a response that passed the structural checks
\* records an error, the handler of the response finishes the attempt with
\* the error of the first such bundle: the key creator is never called, no
\* EnrollKeys request is sent, nothing collected from the other bundles is
\* committed, and the key actions of the bundles with valid key actions are
\* applied and remain.
C36_BundleErrorFinishesAttempt ==
  (ValidResponseProcessed /\ OffendingBundles # {}) =>
    /\ FinishedByResponse(
         BundleError(GetKeyBundleOrder[
           CHOOSE i \in OffendingBundles :
             \A j \in OffendingBundles : i <= j]))
    /\ timer = None
    /\ create_keys_call = NoCall
    /\ enroll_keys_call = NoCall
    /\ CommitCalls = <<>>
    /\ \A bundle_name \in BundleNames :
         /\ ValidKeyActions(bundle_name) => KeyActionsApplied(bundle_name)
         /\ KeyActionsRemain(bundle_name)

\* The first bundle had valid key actions, applied, and a key-creation
\* error; the second had a deletion applied and a key to create with a key
\* directive collected: the attempt finished with the error of the first and
\* no key was created.
C36_Witness ==
  /\ ValidResponseProcessed
  /\ BundleError(kUserKeyPair) # None
  /\ BundleError(kLegacyMasterKey) = None
  /\ CallsOf("SetActiveKey", kUserKeyPair) # {}
  /\ CallsOf("DeleteKey", kLegacyMasterKey) # {}
  /\ kLegacyMasterKey \in DOMAIN sync_keys_outcome.new_keys_to_create
  /\ kLegacyMasterKey \in DOMAIN sync_keys_outcome.new_key_directives
  /\ sync_keys_outcome.results_before = 0
  /\ FinishedByResponse(BundleError(kUserKeyPair))
  /\ create_keys_call = NoCall
  /\ registry_calls[Len(registry_calls)].handle
       \notin registry[kLegacyMasterKey].handles

\* The key-creation instructions of the bundle are invalid: a key of an
\* unsupported type, or a symmetric key while the response has no server
\* Diffie-Hellman key.
InvalidKeyCreation(bundle_name) ==
  \/ UnsupportedKeyRequested(bundle_name)
  \/ /\ SymmetricKeyRequested(bundle_name)
     /\ ReceivedResponse.server_ephemeral_dh = ""

\* C37: a bundle with valid key actions and invalid key-creation
\* instructions has its deletions and its activation applied to the
\* registry, where they remain, and records the key-creation error; its key
\* to create and its key directive alone are dropped.
C37_KeyActionsAppliedDespiteCreationError ==
  ValidResponseProcessed =>
    \A bundle_name \in BundleNames :
      (ValidKeyActions(bundle_name) /\ InvalidKeyCreation(bundle_name)) =>
        /\ KeyActionsApplied(bundle_name)
        /\ KeyActionsRemain(bundle_name)
        /\ BundleError(bundle_name) =
             IF UnsupportedKeyRequested(bundle_name)
             THEN "kErrorKeyCreationKeyTypeNotSupported"
             ELSE "kErrorSymmetricKeyCreationMissingServerDiffieHellman"
        /\ sync_keys_outcome.error_code # None
        /\ NoEarlierError(bundle_name) =>
             sync_keys_outcome.error_code = BundleError(bundle_name)
        /\ NoKeyCreationCollected(bundle_name)

\* The first bundle had a deletion and an activation applied and asked for
\* a symmetric key, with a key directive, without a server Diffie-Hellman
\* key: the handle is deleted, the other is active, the error is reported
\* and nothing was collected for the bundle.
C37_Witness ==
  /\ ValidResponseProcessed
  /\ ValidKeyActions(kUserKeyPair)
  /\ SymmetricKeyRequested(kUserKeyPair)
  /\ ReceivedResponse.server_ephemeral_dh = ""
  /\ BundleResponse(kUserKeyPair).key_directive # None
  /\ CallsOf("DeleteKey", kUserKeyPair) # {}
  /\ CallsOf("SetActiveKey", kUserKeyPair) # {}
  /\ KeyActionsRemain(kUserKeyPair)
  /\ NoKeyCreationCollected(kUserKeyPair)
  /\ FinishedByResponse(
       "kErrorSymmetricKeyCreationMissingServerDiffieHellman")

\* The result codes reported when no SyncKeys response was processed: those
\* of a SyncKeys network failure, of the SyncKeys timeout, of an overload
\* response and of a response that fails CheckSyncKeysResponse.
ResultCodesWithoutResponse ==
  {SyncKeysNetworkRequestErrorToResultCode(error) :
     error \in NetworkRequestErrors}
  \cup {"kErrorTimeoutWaitingForSyncKeysResponse",
        "kErrorCryptAuthServerOverloaded"}
  \cup ({CheckSyncKeysResponse(response, Len(GetKeyBundleOrder)) :
           response \in SyncKeysResponses} \ {None})

\* C38: a reported result carries a client directive exactly when a
\* SyncKeys response that was not an overload response and passed
\* CheckSyncKeysResponse was received before it, and the directive is then
\* that of the response; the results of a SyncKeys network failure, of the
\* SyncKeys timeout, of an overload response and of a structurally invalid
\* response carry none.
C38_DirectiveOnlyOfValidResponse ==
  \A i \in 1..Len(results) :
    /\ results[i].client_directive.has_value
         <=> (ValidResponseProcessed /\ i > sync_keys_outcome.results_before)
    /\ results[i].client_directive.has_value =>
         /\ results[i].client_directive = ReceivedResponse.client_directive
         /\ ValidClientDirective(results[i].client_directive)
    /\ ~results[i].client_directive.has_value =>
         results[i].client_directive = NoClientDirective
    /\ results[i].result_code \in ResultCodesWithoutResponse =>
         results[i].client_directive = NoClientDirective

\* A response that passed the checks was processed and the EnrollKeys call
\* then failed: the result carries the client directive of the response.
C38_Witness ==
  /\ ValidResponseProcessed
  /\ sync_keys_outcome.results_before = 0
  /\ enroll_keys_call.status = "done"
  /\ enroll_keys_call.error # None
  /\ Len(results) = 1
  /\ results[1].client_directive = ClientDirective(1, 0, 1)
  /\ results[1].client_directive = ReceivedResponse.client_directive

\* The bundles a SetKeyDirective call was made for.
BundlesWithKeyDirectiveSet ==
  {bundle_name \in BundleNames : CallsOf("SetKeyDirective", bundle_name) # {}}

\* C39: the bundles a key directive is collected for, handed on with the
\* keys to create and committed for are among the bundles with a key to
\* create: the key directive of a response with key_creation NONE, or of a
\* bundle with a key-action or key-creation error, is never passed to
\* SetKeyDirective, and a directive that is passed is the one of the
\* bundle's response.
C39_KeyDirectivesOnlyWithNewKeys ==
  /\ BundlesWithKeyDirectiveSet # {} => ValidResponseProcessed
  /\ ValidResponseProcessed =>
       /\ DOMAIN sync_keys_outcome.new_key_directives
            \subseteq DOMAIN sync_keys_outcome.new_keys_to_create
       /\ create_keys_call # NoCall =>
            DOMAIN create_keys_call.new_key_directives
              \subseteq DOMAIN create_keys_call.new_keys_to_create
       /\ enroll_keys_call # NoCall =>
            DOMAIN enroll_keys_call.new_key_directives
              \subseteq DOMAIN enroll_keys_call.new_keys
       /\ BundlesWithKeyDirectiveSet
            \subseteq DOMAIN sync_keys_outcome.new_keys_to_create
       /\ \A bundle_name \in BundlesWithKeyDirectiveSet :
            /\ CallsOf("AddEnrolledKey", bundle_name) # {}
            /\ \A i \in CallsOf("SetKeyDirective", bundle_name) :
                 registry_calls[i].directive
                   = BundleResponse(bundle_name).key_directive
       /\ \A bundle_name \in BundleNames :
            (\/ BundleResponse(bundle_name).key_creation = "NONE"
             \/ BundleError(bundle_name) # None) =>
              /\ bundle_name \notin BundlesWithKeyDirectiveSet
              /\ bundle_name
                   \notin DOMAIN sync_keys_outcome.new_key_directives

\* The response had a key directive for both bundles, a key to create for
\* the first and key_creation NONE for the second; the key was enrolled and
\* the key directive of the first bundle alone was set.
C39_Witness ==
  /\ ValidResponseProcessed
  /\ BundleResponse(kUserKeyPair).key_directive # None
  /\ BundleResponse(kLegacyMasterKey).key_directive # None
  /\ BundleResponse(kLegacyMasterKey).key_creation = "NONE"
  /\ BundlesWithKeyDirectiveSet = {kUserKeyPair}
  /\ DOMAIN sync_keys_outcome.new_keys_to_create = {kUserKeyPair}
  /\ LastResult.result_code = "kSuccessNewKeysEnrolled"

\* C40: for every bundle, SetActiveKey is called at most once, after every
\* DeleteKey call of the bundle, and never for a handle DeleteKey was called
\* for; both are called only for handles recorded for the bundle when the
\* attempt started.
C40_ActivationAfterDeletionsOfOtherHandles ==
  \A bundle_name \in BundleNames :
    /\ Cardinality(CallsOf("SetActiveKey", bundle_name)) <= 1
    /\ \A j \in CallsOf("SetActiveKey", bundle_name) :
         /\ \A i \in CallsOf("DeleteKey", bundle_name) :
              /\ i < j
              /\ registry_calls[i].handle # registry_calls[j].handle
         /\ \E k \in 1..Len(key_handle_orders[bundle_name]) :
              registry_calls[j].handle = key_handle_orders[bundle_name][k]
    /\ \A i \in CallsOf("DeleteKey", bundle_name) :
         \E k \in 1..Len(key_handle_orders[bundle_name]) :
           registry_calls[i].handle = key_handle_orders[bundle_name][k]

\* Two handles of a bundle were deleted, the first and the third, and then
\* the second was made the active one.
C40_Witness ==
  /\ ValidResponseProcessed
  /\ KeyActionsOf(kUserKeyPair) = <<"DELETE", "ACTIVATE", "DELETE">>
  /\ Cardinality(CallsOf("DeleteKey", kUserKeyPair)) = 2
  /\ \E j \in CallsOf("SetActiveKey", kUserKeyPair) :
       /\ registry_calls[j].handle = key_handle_orders[kUserKeyPair][2]
       /\ \A i \in CallsOf("DeleteKey", kUserKeyPair) : i < j

====
